---- MODULE Spec2Model ----
(***************************************************************************)
(* A model of the agtype value type of agensgraph-ext                      *)
(* (src/backend/utils/adt/agtype.c): text input and output, the builders   *)
(* agtype_build_list / agtype_build_map / _agtype_build_vertex /           *)
(* _agtype_build_edge, datum conversion, and the access, slice and IN      *)
(* operators.                                                              *)
(*                                                                         *)
(* agtype.c is modelled from its code.  The parse state stack              *)
(* (push_agtype_value), the binary container encoder                       *)
(* (agtype_value_to_agtype), the iterator (agtype_iterator_next), the      *)
(* lookup helpers and the comparator live in agtype_util.c, and the lexer  *)
(* in agtype_parser.c; both files are outside the sources at hand, so      *)
(* those parts follow the design document (spec.md, sections 3, 4 and 6).  *)
(*                                                                         *)
(* Text is a sequence of one-character strings.  A Float is kept as a      *)
(* count of tenths times a power of ten, an ArbitraryPrecision number as   *)
(* a count of tenths with its display scale.                               *)
(***************************************************************************)
EXTENDS Integers, Sequences, FiniteSets, TLC

VARIABLES
    cur,    \* the agtype datum the session holds (a binary container), or SQL NULL
    src,    \* the datum the session held when it made its last call
    text,   \* the C string the last call put out, <<>> when it put out none
    last,   \* the last call: its name, its arguments and how it ended
    tree,   \* the value tree the last call built and encoded (result.res), if any
    its,    \* the iterator cursors open on the datum held, each with what it has yielded
    lookups, \* the key lookups made on the datum held, in order, each with what it returned
    analyzed \* the Query the parser gave post_parse_analyze, the Query the hook left, and the error raised

vars == <<cur, src, text, last, tree, its, lookups, analyzed>>

(***************************************************************************)
(* Bounds of the model.                                                    *)
(***************************************************************************)
\* the largest number of nodes (scalars and containers) of a datum the session holds
MaxSize == 3
\* array indexes and slice bounds range over -MaxIndex .. MaxIndex
MaxIndex == 3

\* the lookups one traversal is interleaved with
MaxLookups == 3

(***************************************************************************)
(* Small helpers.                                                          *)
(***************************************************************************)
Last(s) == s[Len(s)]

Front(s) == SubSeq(s, 1, Len(s) - 1)

Abs(i) == IF i < 0 THEN -i ELSE i

Max(a, b) == IF a > b THEN a ELSE b

Digits == <<"0", "1", "2", "3", "4", "5", "6", "7", "8", "9">>

IsDigit(c) == \E d \in 1..10 : Digits[d] = c

DigitVal(c) == (CHOOSE d \in 1..10 : Digits[d] = c) - 1

RECURSIVE NatToChars(_)
NatToChars(n) ==
    IF n < 10 THEN <<Digits[n + 1]>>
    ELSE NatToChars(n \div 10) \o <<Digits[(n % 10) + 1]>>

RECURSIVE CharsToNat(_)
CharsToNat(s) ==
    IF s = <<>> THEN 0 ELSE CharsToNat(Front(s)) * 10 + DigitVal(Last(s))

AllDigits(s) == s # <<>> /\ \A i \in 1..Len(s) : IsDigit(s[i])

\* the position of the first c in s, 0 when there is none
IndexOf(s, c) ==
    IF \E i \in 1..Len(s) : s[i] = c
    THEN CHOOSE i \in 1..Len(s) : s[i] = c /\ \A j \in 1..(i - 1) : s[j] # c
    ELSE 0

(***************************************************************************)
(* agtype_value: the value tree (spec.md section 3, "Scalar Value",        *)
(* "Container Value").  The field names are those of the C union.          *)
(***************************************************************************)
SqlNull == [type |-> "SQL_NULL"]

AgtNull == [type |-> "AGTV_NULL"]

AgtBool(b) == [type |-> "AGTV_BOOL", boolean |-> b]

AgtInteger(i) == [type |-> "AGTV_INTEGER", int_value |-> i]

\* a float8: tenths * 10^exp / 10, or NaN
Float8(m, e) == [tenths |-> m, exp |-> e, nan |-> FALSE]

Float8NaN == [tenths |-> 0, exp |-> 0, nan |-> TRUE]

AgtFloat(m, e) == [type |-> "AGTV_FLOAT", float_value |-> Float8(m, e)]

\* a numeric: tenths / 10, shown with dscale fractional digits, or NaN
Numeric(m, d) == [tenths |-> m, dscale |-> d, nan |-> FALSE]

NumericNaN == [tenths |-> 0, dscale |-> 0, nan |-> TRUE]

AgtNumeric(m, d) == [type |-> "AGTV_NUMERIC", numeric |-> Numeric(m, d)]

AgtString(s) == [type |-> "AGTV_STRING", string |-> s]

AgtArray(raw, elems) == [type |-> "AGTV_ARRAY", raw_scalar |-> raw, elems |-> elems]

AgtObject(pairs) == [type |-> "AGTV_OBJECT", pairs |-> pairs]

AgtBinary(c) == [type |-> "AGTV_BINARY", data |-> c]

Pair(k, v) == [key |-> k, value |-> v]

\* the value slot of a pair whose key was pushed and whose value is still to come
Unset == [type |-> "UNSET"]

ScalarTypes ==
    {"AGTV_NULL", "AGTV_STRING", "AGTV_NUMERIC", "AGTV_INTEGER", "AGTV_FLOAT",
     "AGTV_BOOL", "AGTV_VERTEX", "AGTV_EDGE"}

IS_A_AGTYPE_SCALAR(v) == v.type \in ScalarTypes

HasPairs(v) == v.type \in {"AGTV_OBJECT", "AGTV_VERTEX", "AGTV_EDGE"}

(***************************************************************************)
(* The binary container (spec.md section 3, "Binary Container"): a header  *)
(* (count, array/object flag, scalar flag) and one entry per child.  A     *)
(* scalar entry holds the scalar inline, a nested container is laid out    *)
(* the same way, and an object stores each key immediately before its      *)
(* value, so an object of count n has 2n entries.                          *)
(***************************************************************************)
Container(isArray, isScalar, n, entries) ==
    [is_array |-> isArray, is_scalar |-> isScalar, count |-> n, children |-> entries]

NestedEntry(c) == [type |-> "AGT_CONTAINER", data |-> c]

TaggedEntry(tag, c) == [type |-> tag, data |-> c]

AGT_ROOT_IS_SCALAR(agt) == agt.is_array /\ agt.is_scalar

AGT_ROOT_IS_ARRAY(agt) == agt.is_array

AGT_ROOT_IS_OBJECT(agt) == ~agt.is_array

AGT_ROOT_COUNT(agt) == agt.count

(***************************************************************************)
(* The encoder (spec.md section 4.2): a depth-first walk of the value      *)
(* tree; object entries are emitted as (key, value) pairs in insertion     *)
(* order, array entries in index order.                                    *)
(***************************************************************************)
RECURSIVE convert_agtype_value(_)
convert_agtype_value(v) ==
    LET entry(x) ==
            IF x.type \in {"AGTV_ARRAY", "AGTV_OBJECT"} THEN NestedEntry(convert_agtype_value(x))
            ELSE IF x.type = "AGTV_BINARY" THEN NestedEntry(x.data)
            ELSE IF x.type \in {"AGTV_VERTEX", "AGTV_EDGE"}
            THEN TaggedEntry(x.type, convert_agtype_value(AgtObject(x.pairs)))
            ELSE x
    IN  IF v.type = "AGTV_ARRAY"
        THEN Container(TRUE, v.raw_scalar, Len(v.elems),
                       [i \in 1..Len(v.elems) |-> entry(v.elems[i])])
        ELSE Container(FALSE, FALSE, Len(v.pairs),
                       [i \in 1..(2 * Len(v.pairs)) |->
                           IF i % 2 = 1 THEN v.pairs[(i + 1) \div 2].key
                           ELSE entry(v.pairs[i \div 2].value)])

\* A top-level scalar is wrapped in a length-1 raw-scalar array first.
agtype_value_to_agtype(v) ==
    IF IS_A_AGTYPE_SCALAR(v) THEN convert_agtype_value(AgtArray(TRUE, <<v>>))
    ELSE IF v.type = "AGTV_BINARY" THEN v.data
    ELSE convert_agtype_value(v)

(***************************************************************************)
(* Reading an entry back: a scalar as itself, a nested container as one    *)
(* opaque binary slice, a Vertex or Edge as its tagged object.             *)
(***************************************************************************)
RECURSIVE fill_agtype_value(_)
fill_agtype_value(e) ==
    LET pairsOf(c) ==
            [i \in 1..c.count |->
                Pair(c.children[2 * i - 1], fill_agtype_value(c.children[2 * i]))]
    IN  IF e.type = "AGT_CONTAINER" THEN AgtBinary(e.data)
        ELSE IF e.type \in {"AGTV_VERTEX", "AGTV_EDGE"}
        THEN [type |-> e.type, pairs |-> pairsOf(e.data)]
        ELSE e

NullPtr == [type |-> "NULL_PTR"]

\* the i-th (from 0) element of an array container, NULL past its end
get_ith_agtype_value_from_container(c, i) ==
    IF i >= c.count THEN NullPtr ELSE fill_agtype_value(c.children[i + 1])

\* a faulty variant: the scan stops at the first pair, whatever its key
FindFirstPair(c, key) ==
    IF c.is_array \/ c.count = 0 THEN NullPtr ELSE fill_agtype_value(c.children[2])

\* Lookup (spec.md section 4.4): a linear scan of the keys in stored order.
find_agtype_value_from_container(c, key) ==
    LET hits == {i \in 1..c.count : c.children[2 * i - 1].string = key.string}
    IN  IF c.is_array \/ hits = {} THEN NullPtr
        ELSE fill_agtype_value(c.children[2 * (CHOOSE i \in hits : \A j \in hits : i <= j)])

(***************************************************************************)
(* The iterator (spec.md section 4.3).  A cursor is a stack of frames      *)
(* (container, child index, position); the top frame is the last one.     *)
(***************************************************************************)
Frame(c, i, st) == [c |-> c, i |-> i, state |-> st]

agtype_iterator_init(c) ==
    <<Frame(c, 0, IF c.is_array THEN "AGTI_ARRAY_START" ELSE "AGTI_OBJECT_START")>>

Step(tok, val, it) == [tok |-> tok, val |-> val, it |-> it]

BeginValue(c) ==
    IF c.is_array
    THEN [type |-> "AGTV_ARRAY", raw_scalar |-> c.is_scalar, num_elems |-> c.count]
    ELSE [type |-> "AGTV_OBJECT", num_pairs |-> c.count]

\* entering a container: its Begin token, the frame left on its first child
Descend(c, it) ==
    IF c.is_array
    THEN Step("WAGT_BEGIN_ARRAY", BeginValue(c), Append(it, Frame(c, 0, "AGTI_ARRAY_ELEM")))
    ELSE Step("WAGT_BEGIN_OBJECT", BeginValue(c), Append(it, Frame(c, 0, "AGTI_OBJECT_KEY")))

\* a faulty variant: the scalar after a key comes as an Elem token
ValueAsElem(it, skip_nested) ==
    IF it = <<>> THEN Step("WAGT_DONE", AgtNull, it)
    ELSE
    LET f == Last(it)
        rest == Front(it)
    IN  CASE f.state \in {"AGTI_ARRAY_START", "AGTI_OBJECT_START"} -> Descend(f.c, rest)
          [] f.state = "AGTI_ARRAY_ELEM" ->
                IF f.i >= f.c.count THEN Step("WAGT_END_ARRAY", AgtNull, rest)
                ELSE LET e == f.c.children[f.i + 1]
                         up == Append(rest, Frame(f.c, f.i + 1, "AGTI_ARRAY_ELEM"))
                     IN  IF e.type = "AGT_CONTAINER" /\ ~skip_nested THEN Descend(e.data, up)
                         ELSE Step("WAGT_ELEM", fill_agtype_value(e), up)
          [] f.state = "AGTI_OBJECT_KEY" ->
                IF f.i >= f.c.count THEN Step("WAGT_END_OBJECT", AgtNull, rest)
                ELSE Step("WAGT_KEY", f.c.children[2 * f.i + 1],
                          Append(rest, Frame(f.c, f.i, "AGTI_OBJECT_VALUE")))
          [] f.state = "AGTI_OBJECT_VALUE" ->
                LET e == f.c.children[2 * f.i + 2]
                    up == Append(rest, Frame(f.c, f.i + 1, "AGTI_OBJECT_KEY"))
                IN  IF e.type = "AGT_CONTAINER" /\ ~skip_nested THEN Descend(e.data, up)
                    ELSE Step("WAGT_ELEM", fill_agtype_value(e), up)

agtype_iterator_next(it, skip_nested) ==
    IF it = <<>> THEN Step("WAGT_DONE", AgtNull, it)
    ELSE
    LET f == Last(it)
        rest == Front(it)
    IN  CASE f.state \in {"AGTI_ARRAY_START", "AGTI_OBJECT_START"} -> Descend(f.c, rest)
          [] f.state = "AGTI_ARRAY_ELEM" ->
                IF f.i >= f.c.count THEN Step("WAGT_END_ARRAY", AgtNull, rest)
                ELSE LET e == f.c.children[f.i + 1]
                         up == Append(rest, Frame(f.c, f.i + 1, "AGTI_ARRAY_ELEM"))
                     IN  IF e.type = "AGT_CONTAINER" /\ ~skip_nested THEN Descend(e.data, up)
                         ELSE Step("WAGT_ELEM", fill_agtype_value(e), up)
          [] f.state = "AGTI_OBJECT_KEY" ->
                IF f.i >= f.c.count THEN Step("WAGT_END_OBJECT", AgtNull, rest)
                ELSE Step("WAGT_KEY", f.c.children[2 * f.i + 1],
                          Append(rest, Frame(f.c, f.i, "AGTI_OBJECT_VALUE")))
          [] f.state = "AGTI_OBJECT_VALUE" ->
                LET e == f.c.children[2 * f.i + 2]
                    up == Append(rest, Frame(f.c, f.i + 1, "AGTI_OBJECT_KEY"))
                IN  IF e.type = "AGT_CONTAINER" /\ ~skip_nested THEN Descend(e.data, up)
                    ELSE Step("WAGT_VALUE", fill_agtype_value(e), up)

Token(tok, val) == [tok |-> tok, val |-> val]

\* every token a cursor yields from its position on, the closing Done included
RECURSIVE IterTokens(_, _)
IterTokens(it, skip_nested) ==
    LET s == agtype_iterator_next(it, skip_nested)
    IN  IF s.tok = "WAGT_DONE" THEN <<Token(s.tok, s.val)>>
        ELSE <<Token(s.tok, s.val)>> \o IterTokens(s.it, skip_nested)

ContainerTokens(c) == IterTokens(agtype_iterator_init(c), FALSE)

(***************************************************************************)
(* The parse state stack (spec.md section 4.1).  An agtype_in_state is the *)
(* stack of frames in progress (the top frame is the last one), the node   *)
(* the last push returned, and the error that ended the call, "" when      *)
(* none: after ereport(ERROR) nothing more of the call runs.  depth is the  *)
(* number of datum_to_agtype calls on the C stack.                         *)
(***************************************************************************)
InState(ps, res, err) ==
    [parse_state |-> ps, res |-> res, err |-> err, depth |-> 0, checked |-> {}]

\* memset(&state, 0, sizeof(state))
EmptyState == InState(<<>>, NullPtr, "")

Raise(st, msg) == IF st.err # "" THEN st ELSE [st EXCEPT !.err = msg]

\* a completed or scalar child put into the frame f, as Elem or Value would
AppendChild(f, v) ==
    IF f.type = "AGTV_ARRAY" THEN [f EXCEPT !.elems = Append(@, v)]
    ELSE [f EXCEPT !.pairs[Len(f.pairs)].value = v]

KeyPending(f) == f.pairs # <<>> /\ Last(f.pairs).value = Unset

push_agtype_value(st, tok, scalar_val) ==
    IF st.err # "" THEN st
    ELSE
    LET ps == st.parse_state
        top == Last(ps)
        open(f) == [st EXCEPT !.parse_state = Append(ps, f), !.res = f]
        put(f) == [st EXCEPT !.parse_state = Append(Front(ps), f), !.res = f]
        violation == Raise(st, "parse state stack contract violation")
    IN  CASE tok = "WAGT_BEGIN_ARRAY" ->
                open(AgtArray(scalar_val.type = "AGTV_ARRAY" /\ scalar_val.raw_scalar, <<>>))
          [] tok = "WAGT_BEGIN_OBJECT" -> open(AgtObject(<<>>))
          [] tok = "WAGT_KEY" ->
                IF ps = <<>> \/ top.type # "AGTV_OBJECT" \/ KeyPending(top) THEN violation
                ELSE put([top EXCEPT !.pairs = Append(@, Pair(scalar_val, Unset))])
          [] tok = "WAGT_VALUE" ->
                IF ps = <<>> \/ top.type # "AGTV_OBJECT" \/ ~KeyPending(top) THEN violation
                ELSE put(AppendChild(top, scalar_val))
          [] tok = "WAGT_ELEM" ->
                IF ps = <<>> \/ top.type # "AGTV_ARRAY" THEN violation
                ELSE put(AppendChild(top, scalar_val))
          [] tok \in {"WAGT_END_ARRAY", "WAGT_END_OBJECT"} ->
                IF ps = <<>>
                   \/ top.type # (IF tok = "WAGT_END_ARRAY" THEN "AGTV_ARRAY" ELSE "AGTV_OBJECT")
                   \/ (top.type = "AGTV_OBJECT" /\ KeyPending(top))
                THEN violation
                ELSE IF Len(ps) = 1 THEN [st EXCEPT !.parse_state = <<>>, !.res = top]
                ELSE IF Last(Front(ps)).type = "AGTV_OBJECT" /\ ~KeyPending(Last(Front(ps)))
                THEN violation
                ELSE [st EXCEPT
                         !.parse_state = Append(Front(Front(ps)), AppendChild(Last(Front(ps)), top)),
                         !.res = top]

(***************************************************************************)
(* AGTENTRY_OFFLENMASK is 0x0FFFFFFF in the code; the model's strings are  *)
(* a few characters long, so the limit is scaled down to make it bite.     *)
(***************************************************************************)
AGTENTRY_OFFLENMASK == 10

\* a faulty variant: a string of any length passes
LengthUnbounded(st, len) ==
    IF st.err # "" THEN st ELSE [st EXCEPT !.checked = @ \cup {len}]

\* check_string_length as a guard of the state: the error or nothing; the
\* state keeps the lengths that went through it
check_string_length(st, len) ==
    IF st.err # "" THEN st
    ELSE IF len > AGTENTRY_OFFLENMASK
    THEN Raise([st EXCEPT !.checked = @ \cup {len}],
               "string too long to represent as agtype string")
    ELSE [st EXCEPT !.checked = @ \cup {len}]

(***************************************************************************)
(* The hook bodies of the text input.                                      *)
(***************************************************************************)
agtype_in_object_start(st) == push_agtype_value(st, "WAGT_BEGIN_OBJECT", NullPtr)

agtype_in_object_end(st) == push_agtype_value(st, "WAGT_END_OBJECT", NullPtr)

agtype_in_array_start(st) == push_agtype_value(st, "WAGT_BEGIN_ARRAY", NullPtr)

agtype_in_array_end(st) == push_agtype_value(st, "WAGT_END_ARRAY", NullPtr)

agtype_in_object_field_start(st, fname) ==
    push_agtype_value(check_string_length(st, Len(fname)), "WAGT_KEY", AgtString(fname))

(***************************************************************************)
(* The host's number conversions, as agtype.c calls them: int8out /        *)
(* scanint8 / int8in, float8out / float8in_internal, numeric_out /         *)
(* numeric_in.  A failed conversion is the host's ereport(ERROR).          *)
(***************************************************************************)
SignedChars(i) == IF i < 0 THEN <<"-">> \o NatToChars(-i) ELSE NatToChars(i)

TenthsChars(m) ==
    (IF m < 0 THEN <<"-">> ELSE <<>>)
        \o NatToChars(Abs(m) \div 10) \o <<".", Digits[(Abs(m) % 10) + 1]>>

\* whole tenths only
WholeChars(m) == (IF m < 0 THEN <<"-">> ELSE <<>>) \o NatToChars(Abs(m) \div 10)

Unsigned(s) == IF s # <<>> /\ s[1] = "-" THEN Tail(s) ELSE s

Sign(s) == IF s # <<>> /\ s[1] = "-" THEN -1 ELSE 1

int8out(i) == SignedChars(i)

Conv(ok, v) == [ok |-> ok, value |-> v]

scanint8(s) ==
    IF AllDigits(Unsigned(s)) THEN Conv(TRUE, Sign(s) * CharsToNat(Unsigned(s)))
    ELSE Conv(FALSE, 0)

\* digits, then at most one fractional digit: the value in tenths
DecimalTenths(s) ==
    LET u == Unsigned(s)
        dot == IndexOf(u, ".")
    IN  IF dot = 0
        THEN IF AllDigits(u) THEN Conv(TRUE, Sign(s) * CharsToNat(u) * 10) ELSE Conv(FALSE, 0)
        ELSE IF AllDigits(SubSeq(u, 1, dot - 1)) /\ Len(u) = dot + 1 /\ IsDigit(u[dot + 1])
        THEN Conv(TRUE, Sign(s) * (CharsToNat(SubSeq(u, 1, dot - 1)) * 10 + DigitVal(u[dot + 1])))
        ELSE Conv(FALSE, 0)

NaNChars == <<"N", "a", "N">>

float8out(f) ==
    IF f.nan THEN NaNChars
    ELSE IF f.exp > 0 THEN WholeChars(f.tenths) \o <<"e", "+">> \o NatToChars(f.exp)
    ELSE IF f.tenths % 10 = 0 THEN WholeChars(f.tenths)
    ELSE TenthsChars(f.tenths)

float8in_internal(s) ==
    LET e == IndexOf(s, "e")
        mant == IF e = 0 THEN s ELSE SubSeq(s, 1, e - 1)
        expo == IF e = 0 THEN <<"0">> ELSE SubSeq(s, e + 1, Len(s))
        m == DecimalTenths(mant)
        x == IF expo # <<>> /\ expo[1] = "+" THEN Tail(expo) ELSE expo
    IN  IF s = NaNChars THEN Conv(TRUE, Float8NaN)
        ELSE IF m.ok /\ AllDigits(x) THEN Conv(TRUE, Float8(m.value, CharsToNat(x)))
        ELSE Conv(FALSE, Float8(0, 0))

numeric_out(n) ==
    IF n.nan THEN NaNChars
    ELSE IF n.dscale = 0 THEN WholeChars(n.tenths)
    ELSE TenthsChars(n.tenths)

numeric_in(s) ==
    LET m == DecimalTenths(s)
    IN  IF s = NaNChars THEN Conv(TRUE, NumericNaN)
        ELSE Conv(m.ok, Numeric(m.value, IF IndexOf(s, ".") = 0 THEN 0 ELSE 1))

(***************************************************************************)
(* pg_strcasecmp(annotation, name) == 0 for a lower-case name.             *)
(***************************************************************************)
UpperCase == <<"A", "C", "E", "F", "G", "I", "L", "M", "N", "O", "R", "T", "U", "X">>

LowerCase == <<"a", "c", "e", "f", "g", "i", "l", "m", "n", "o", "r", "t", "u", "x">>

ToLower(c) ==
    IF \E i \in 1..Len(UpperCase) : UpperCase[i] = c
    THEN LowerCase[CHOOSE i \in 1..Len(UpperCase) : UpperCase[i] = c]
    ELSE c

SameIgnoringCase(s, name) ==
    Len(s) = Len(name) /\ \A i \in 1..Len(s) : ToLower(s[i]) = name[i]

Numeric7 == <<"n", "u", "m", "e", "r", "i", "c">>

Integer7 == <<"i", "n", "t", "e", "g", "e", "r">>

Float5 == <<"f", "l", "o", "a", "t">>

(***************************************************************************)
(* agtype_in_scalar: the scalar hook.  annotation is NullPtr when the      *)
(* literal carries none.                                                   *)
(***************************************************************************)
\* a scalar, or its single-scalar array when no frame is open
\* a faulty variant: the scalar is pushed as an Elem whatever the frame
PushElemAlways(st, v, objTok) ==
    IF st.err # "" THEN st
    ELSE IF st.parse_state = <<>>
    THEN push_agtype_value(
             push_agtype_value(
                 push_agtype_value(st, "WAGT_BEGIN_ARRAY", AgtArray(TRUE, <<>>)),
                 "WAGT_ELEM", v),
             "WAGT_END_ARRAY", NullPtr)
    ELSE push_agtype_value(st, "WAGT_ELEM", v)

PushScalar(st, v, objTok) ==
    IF st.err # "" THEN st
    ELSE IF st.parse_state = <<>>
    THEN push_agtype_value(
             push_agtype_value(
                 push_agtype_value(st, "WAGT_BEGIN_ARRAY", AgtArray(TRUE, <<>>)),
                 "WAGT_ELEM", v),
             "WAGT_END_ARRAY", NullPtr)
    ELSE IF Last(st.parse_state).type \notin {"AGTV_ARRAY", "AGTV_OBJECT"}
    THEN Raise(st, "unexpected parent of nested structure")
    ELSE push_agtype_value(
             st, IF Last(st.parse_state).type = "AGTV_ARRAY" THEN "WAGT_ELEM" ELSE objTok, v)

\* a faulty variant: the annotation is not looked at
AnnotationIgnored(tokentype, annotation) == tokentype

AnnotatedTokenType(tokentype, annotation) ==
    IF annotation = NullPtr THEN tokentype
    ELSE IF Len(annotation.string) = 7 /\ SameIgnoringCase(annotation.string, Numeric7)
    THEN "AGTYPE_TOKEN_NUMERIC"
    ELSE IF Len(annotation.string) = 7 /\ SameIgnoringCase(annotation.string, Integer7)
    THEN "AGTYPE_TOKEN_INTEGER"
    ELSE IF Len(annotation.string) = 5 /\ SameIgnoringCase(annotation.string, Float5)
    THEN "AGTYPE_TOKEN_FLOAT"
    ELSE "invalid annotation value for scalar"

\* the switch on the token type: the scalar v, or the error of its conversion
TokenValue(tokentype, token) ==
    LET i == scanint8(token)
        f == float8in_internal(token)
        n == numeric_in(token)
        value(v) == [err |-> "", v |-> v, checked |-> {}]
        error(msg) == [err |-> msg, v |-> AgtNull, checked |-> {}]
        checked(r) == [r EXCEPT !.checked = {Len(token)}]
    IN  CASE tokentype = "AGTYPE_TOKEN_STRING" ->
                IF Len(token) > AGTENTRY_OFFLENMASK
                THEN checked(error("string too long to represent as agtype string"))
                ELSE checked(value(AgtString(token)))
          [] tokentype = "AGTYPE_TOKEN_INTEGER" ->
                IF i.ok THEN value(AgtInteger(i.value))
                ELSE error("invalid input syntax for integer")
          [] tokentype = "AGTYPE_TOKEN_FLOAT" ->
                IF f.ok THEN value([type |-> "AGTV_FLOAT", float_value |-> f.value])
                ELSE error("invalid input syntax for type double precision")
          [] tokentype = "AGTYPE_TOKEN_NUMERIC" ->
                IF n.ok THEN value([type |-> "AGTV_NUMERIC", numeric |-> n.value])
                ELSE error("invalid input syntax for type numeric")
          [] tokentype = "AGTYPE_TOKEN_TRUE" -> value(AgtBool(TRUE))
          [] tokentype = "AGTYPE_TOKEN_FALSE" -> value(AgtBool(FALSE))
          [] tokentype = "AGTYPE_TOKEN_NULL" -> value(AgtNull)
          [] OTHER -> error(IF tokentype = "invalid annotation value for scalar"
                            THEN tokentype ELSE "invalid agtype token type")

\* the end of the hook: the scalar goes into the state unless its conversion failed
PushTokenValue(st, tv) ==
    LET seen == [st EXCEPT !.checked = @ \cup tv.checked]
    IN  IF tv.err # "" THEN Raise(seen, tv.err) ELSE PushScalar(seen, tv.v, "WAGT_VALUE")

agtype_in_scalar(st, token, tokentype, annotation) ==
    IF st.err # "" THEN st
    ELSE PushTokenValue(st, TokenValue(AnnotatedTokenType(tokentype, annotation), token))

(***************************************************************************)
(* Text output.  A control byte is written as the one-character string     *)
(* <xx> of its hexadecimal code; <00> is the C string terminator.          *)
(***************************************************************************)
ControlBytes ==
    <<[ch |-> "<01>", hex |-> <<"0", "1">>], [ch |-> "<08>", hex |-> <<"0", "8">>],
      [ch |-> "<09>", hex |-> <<"0", "9">>], [ch |-> "<0a>", hex |-> <<"0", "a">>],
      [ch |-> "<0c>", hex |-> <<"0", "c">>], [ch |-> "<0d>", hex |-> <<"0", "d">>],
      [ch |-> "<1f>", hex |-> <<"1", "f">>]>>

IsControlByte(c) == \E i \in 1..Len(ControlBytes) : ControlBytes[i].ch = c

HexOf(c) == ControlBytes[CHOOSE i \in 1..Len(ControlBytes) : ControlBytes[i].ch = c].hex

\* the C string in a buffer: the bytes before the first terminator
CString(s) == IF IndexOf(s, "<00>") = 0 THEN s ELSE SubSeq(s, 1, IndexOf(s, "<00>") - 1)

\* a faulty variant: every byte is copied as it is
CopiedChar(c) == <<c>>

EscapedChar(c) ==
    CASE c = "<08>" -> <<"\\", "b">>
      [] c = "<0c>" -> <<"\\", "f">>
      [] c = "<0a>" -> <<"\\", "n">>
      [] c = "<0d>" -> <<"\\", "r">>
      [] c = "<09>" -> <<"\\", "t">>
      [] c = "\"" -> <<"\\", "\"">>
      [] c = "\\" -> <<"\\", "\\">>
      [] OTHER -> IF IsControlByte(c) THEN <<"\\", "u", "0", "0">> \o HexOf(c) ELSE <<c>>

RECURSIVE EscapeLoop(_)
EscapeLoop(str) ==
    IF str = <<>> THEN <<>> ELSE EscapedChar(Head(str)) \o EscapeLoop(Tail(str))

escape_agtype(buf, str) == buf \o <<"\"">> \o EscapeLoop(CString(str)) \o <<"\"">>

\* a faulty variant: ".0" is never appended
NoDecimalNeeded(numstr) == FALSE

is_decimal_needed(numstr) ==
    LET i == IF numstr # <<>> /\ numstr[1] = "-" THEN 2 ELSE 1
    IN  \A j \in i..Len(numstr) : IsDigit(numstr[j])

RECURSIVE Spaces(_)
Spaces(n) == IF n <= 0 THEN <<>> ELSE <<" ">> \o Spaces(n - 1)

add_indent(out, indent, level) ==
    IF indent THEN out \o <<"\n">> \o Spaces(4 * level) ELSE out

VertexSuffix == <<":", ":", "v", "e", "r", "t", "e", "x">>

\* a faulty variant: an edge is given the suffix of a vertex
SuffixOfAVertex == VertexSuffix

EdgeSuffix == <<":", ":", "e", "d", "g", "e">>

NumericSuffix == <<":", ":", "n", "u", "m", "e", "r", "i", "c">>

(***************************************************************************)
(* agtype_to_cstring_worker and agtype_put_escaped_value.  The worker's    *)
(* locals are the record w; err is the elog(ERROR) of an unknown token or  *)
(* scalar type.                                                            *)
(***************************************************************************)
RECURSIVE agtype_to_cstring_worker(_, _, _)
RECURSIVE WorkerLoop(_)

\* the buffer after the scalar, or the error
agtype_put_escaped_value(out, scalar_val) ==
    LET numstr == float8out(scalar_val.float_value)
        tagged(suffix) ==
            LET prop == agtype_value_to_agtype(AgtObject(scalar_val.pairs))
                body == agtype_to_cstring_worker(out, prop, FALSE)
            IN  [body EXCEPT !.out = @ \o suffix]
        ok(s) == [out |-> out \o s, err |-> ""]
    IN  CASE scalar_val.type = "AGTV_NULL" -> ok(<<"n", "u", "l", "l">>)
          [] scalar_val.type = "AGTV_STRING" ->
                [out |-> escape_agtype(out, scalar_val.string), err |-> ""]
          [] scalar_val.type = "AGTV_NUMERIC" ->
                ok(numeric_out(scalar_val.numeric) \o NumericSuffix)
          [] scalar_val.type = "AGTV_INTEGER" -> ok(int8out(scalar_val.int_value))
          [] scalar_val.type = "AGTV_FLOAT" ->
                ok(numstr \o (IF is_decimal_needed(numstr) THEN <<".", "0">> ELSE <<>>))
          [] scalar_val.type = "AGTV_BOOL" ->
                ok(IF scalar_val.boolean THEN <<"t", "r", "u", "e">>
                   ELSE <<"f", "a", "l", "s", "e">>)
          [] scalar_val.type = "AGTV_VERTEX" -> tagged(VertexSuffix)
          [] scalar_val.type = "AGTV_EDGE" -> tagged(EdgeSuffix)
          [] OTHER -> [out |-> out, err |-> "unknown agtype scalar type"]

\* ", " cut to ispaces characters when the item is not the first of its container
Comma(w) ==
    IF w.first THEN <<>> ELSE IF w.indent THEN <<",">> ELSE <<",", " ">>

WorkerSwitch(w) ==
    LET sep == w.out \o Comma(w)
    IN  CASE w.type = "WAGT_BEGIN_ARRAY" ->
                [w EXCEPT
                    !.out = IF ~w.v.raw_scalar
                            THEN add_indent(sep, w.use_indent /\ ~w.last_was_key, w.level)
                                     \o <<"[">>
                            ELSE sep,
                    !.raw_scalar = IF w.v.raw_scalar THEN TRUE ELSE @,
                    !.first = TRUE,
                    !.level = @ + 1]
          [] w.type = "WAGT_BEGIN_OBJECT" ->
                [w EXCEPT
                    !.out = add_indent(sep, w.use_indent /\ ~w.last_was_key, w.level) \o <<"{">>,
                    !.first = TRUE,
                    !.level = @ + 1]
          [] w.type = "WAGT_KEY" ->
                LET key == agtype_put_escaped_value(add_indent(sep, w.use_indent, w.level), w.v)
                    nxt == agtype_iterator_next(w.it, FALSE)
                    val == agtype_put_escaped_value(key.out \o <<":", " ">>, nxt.val)
                IN  IF key.err # "" THEN [w EXCEPT !.err = key.err]
                    ELSE IF nxt.tok = "WAGT_VALUE"
                    THEN [w EXCEPT !.out = val.out, !.err = val.err, !.first = FALSE,
                                   !.it = nxt.it, !.type = nxt.tok, !.v = nxt.val]
                    ELSE [w EXCEPT !.out = key.out \o <<":", " ">>, !.first = TRUE,
                                   !.it = nxt.it, !.type = nxt.tok, !.v = nxt.val,
                                   !.redo_switch = TRUE]
          [] w.type = "WAGT_ELEM" ->
                LET val == agtype_put_escaped_value(
                               IF ~w.raw_scalar THEN add_indent(sep, w.use_indent, w.level)
                               ELSE sep,
                               w.v)
                IN  [w EXCEPT !.out = val.out, !.err = val.err, !.first = FALSE]
          [] w.type = "WAGT_END_ARRAY" ->
                [w EXCEPT
                    !.level = @ - 1,
                    !.out = IF ~w.raw_scalar
                            THEN add_indent(w.out, w.use_indent, w.level - 1) \o <<"]">>
                            ELSE w.out,
                    !.first = FALSE]
          [] w.type = "WAGT_END_OBJECT" ->
                [w EXCEPT
                    !.level = @ - 1,
                    !.out = add_indent(w.out, w.use_indent, w.level - 1) \o <<"}">>,
                    !.first = FALSE]
          [] OTHER -> [w EXCEPT !.err = "unknown agtype iterator token type"]

WorkerLoop(w) ==
    LET nxt == agtype_iterator_next(w.it, FALSE)
        got == IF w.redo_switch THEN w
               ELSE [w EXCEPT !.it = nxt.it, !.type = nxt.tok, !.v = nxt.val]
        done == [w EXCEPT !.type = "WAGT_DONE"]
        body == WorkerSwitch([got EXCEPT !.redo_switch = FALSE])
    IN  IF w.err # "" THEN w
        ELSE IF ~w.redo_switch /\ nxt.tok = "WAGT_DONE" THEN done
        ELSE WorkerLoop([body EXCEPT !.use_indent = w.indent,
                                     !.last_was_key = body.redo_switch])

agtype_to_cstring_worker(out, in, indent) ==
    WorkerLoop([it |-> agtype_iterator_init(in), out |-> out, err |-> "",
                first |-> TRUE, type |-> "WAGT_DONE", v |-> AgtNull, level |-> 0,
                redo_switch |-> FALSE, use_indent |-> FALSE, raw_scalar |-> FALSE,
                last_was_key |-> FALSE, indent |-> indent])

agtype_to_cstring(in) == agtype_to_cstring_worker(<<>>, in, FALSE).out

agtype_to_cstring_indent(in) == agtype_to_cstring_worker(<<>>, in, TRUE).out

(***************************************************************************)
(* The lexer and parser of the textual encoding (spec.md section 6):       *)
(* object {"k": v, ...}, array [v, ...], strings with the escapes of       *)
(* escape_agtype, integers as plain decimal, floats with a decimal point   *)
(* or an exponent, true / false / null, and a trailing ::annotation on a   *)
(* scalar literal.  The parser calls the hook bodies above in written      *)
(* order.  A parse position is the record [pos, st].                       *)
(***************************************************************************)
Letters ==
    {"a", "b", "c", "d", "e", "f", "g", "h", "i", "j", "k", "l", "m", "n", "o", "p", "q",
     "r", "s", "t", "u", "v", "w", "x", "y", "z", "A", "C", "E", "F", "G", "I", "L", "M",
     "N", "O", "R", "T", "U", "X"}

WhiteSpace == {" ", "\n", "<09>", "<0d>"}

At(t, p) == IF p >= 1 /\ p <= Len(t) THEN t[p] ELSE "<00>"

\* the first position from p on whose character is not in the set
RECURSIVE SkipWhile(_, _, _)
SkipWhile(t, p, set) == IF At(t, p) \in set THEN SkipWhile(t, p + 1, set) ELSE p

SkipWs(t, p) == SkipWhile(t, p, WhiteSpace)

SyntaxError(st) == Raise(st, "invalid input syntax for type agtype")

Unescaped(c) ==
    CASE c = "b" -> "<08>"
      [] c = "f" -> "<0c>"
      [] c = "n" -> "<0a>"
      [] c = "r" -> "<0d>"
      [] c = "t" -> "<09>"
      [] OTHER -> c

UnicodeByte(h) ==
    IF \E i \in 1..Len(ControlBytes) : ControlBytes[i].hex = h
    THEN ControlBytes[CHOOSE i \in 1..Len(ControlBytes) : ControlBytes[i].hex = h].ch
    ELSE "<00>"

\* the de-escaped string whose opening quote is at p - 1: [ok, chars, pos]
RECURSIVE LexString(_, _, _)
LexString(t, p, acc) ==
    LET c == At(t, p)
        e == At(t, p + 1)
        byte == UnicodeByte(<<At(t, p + 4), At(t, p + 5)>>)
    IN  IF p > Len(t) \/ IsControlByte(c) THEN [ok |-> FALSE, chars |-> acc, pos |-> p]
        ELSE IF c = "\"" THEN [ok |-> TRUE, chars |-> acc, pos |-> p + 1]
        ELSE IF c # "\\" THEN LexString(t, p + 1, Append(acc, c))
        ELSE IF e \in {"\"", "\\", "/", "b", "f", "n", "r", "t"}
        THEN LexString(t, p + 2, Append(acc, Unescaped(e)))
        ELSE IF e = "u" /\ At(t, p + 2) = "0" /\ At(t, p + 3) = "0" /\ byte # "<00>"
        THEN LexString(t, p + 6, Append(acc, byte))
        ELSE [ok |-> FALSE, chars |-> acc, pos |-> p]

NumberChars == {"0", "1", "2", "3", "4", "5", "6", "7", "8", "9", "-", "+", ".", "e", "E"}

\* the scalar hook on the literal that ends before q, with the annotation
\* that follows it
ScalarLiteral(t, q, st, token, tokentype) ==
    LET annotated == At(t, q) = ":" /\ At(t, q + 1) = ":"
        a == SkipWhile(t, q + 2, Letters)
    IN  [pos |-> IF annotated THEN a ELSE q,
         st |-> agtype_in_scalar(st, token, tokentype,
                                 IF annotated THEN AgtString(SubSeq(t, q + 2, a - 1))
                                 ELSE NullPtr)]

\* the literal at p: [ok, pos, token, tokentype].  The text encoding is to
\* round-trip with the parser (spec.md section 6), so the NaN that float8out
\* and numeric_out write is read as a Float token.
LexScalar(t, p) ==
    LET c == At(t, p)
        str == LexString(t, p + 1, <<>>)
        numEnd == SkipWhile(t, p, NumberChars)
        num == SubSeq(t, p, numEnd - 1)
        wordEnd == SkipWhile(t, p, Letters)
        word == SubSeq(t, p, wordEnd - 1)
        lexeme(q, token, tokentype) ==
            [ok |-> TRUE, pos |-> q, token |-> token, tokentype |-> tokentype]
    IN  CASE c = "\"" /\ str.ok -> lexeme(str.pos, str.chars, "AGTYPE_TOKEN_STRING")
          [] c = "-" \/ IsDigit(c) ->
                lexeme(numEnd, num,
                       IF \E i \in 1..Len(num) : num[i] \in {".", "e", "E"}
                       THEN "AGTYPE_TOKEN_FLOAT" ELSE "AGTYPE_TOKEN_INTEGER")
          [] c # "\"" /\ word = <<"t", "r", "u", "e">> -> lexeme(wordEnd, word, "AGTYPE_TOKEN_TRUE")
          [] c # "\"" /\ word = <<"f", "a", "l", "s", "e">> ->
                lexeme(wordEnd, word, "AGTYPE_TOKEN_FALSE")
          [] c # "\"" /\ word = <<"n", "u", "l", "l">> -> lexeme(wordEnd, word, "AGTYPE_TOKEN_NULL")
          [] c # "\"" /\ word = NaNChars -> lexeme(wordEnd, word, "AGTYPE_TOKEN_FLOAT")
          [] OTHER -> [ok |-> FALSE, pos |-> p, token |-> <<>>, tokentype |-> "none"]

ScalarOrError(t, st, lx) ==
    IF lx.ok THEN ScalarLiteral(t, lx.pos, st, lx.token, lx.tokentype)
    ELSE [pos |-> lx.pos, st |-> SyntaxError(st)]

parse_scalar(t, p, st) == ScalarOrError(t, st, LexScalar(t, p))

RECURSIVE parse_value(_, _, _)
RECURSIVE parse_object_fields(_, _, _)
RECURSIVE parse_array_elements(_, _, _)

\* after an object member val: the next one behind a comma, or the closing brace
AfterField(t, val) ==
    LET q == SkipWs(t, val.pos)
    IN  IF val.st.err # "" THEN val
        ELSE IF At(t, q) = "," THEN parse_object_fields(t, q + 1, val.st)
        ELSE IF At(t, q) = "}" THEN [pos |-> q + 1, st |-> agtype_in_object_end(val.st)]
        ELSE [pos |-> q, st |-> SyntaxError(val.st)]

parse_object_fields(t, p0, st0) ==
    LET p == SkipWs(t, p0)
        key == LexString(t, p + 1, <<>>)
        colon == SkipWs(t, key.pos)
    IN  IF At(t, p) # "\"" \/ ~key.ok \/ At(t, colon) # ":"
        THEN [pos |-> p, st |-> SyntaxError(st0)]
        ELSE AfterField(t, parse_value(t, colon + 1,
                                       agtype_in_object_field_start(st0, key.chars)))

\* after an array element val: the next one behind a comma, or the closing bracket
AfterElement(t, val) ==
    LET q == SkipWs(t, val.pos)
    IN  IF val.st.err # "" THEN val
        ELSE IF At(t, q) = "," THEN parse_array_elements(t, q + 1, val.st)
        ELSE IF At(t, q) = "]" THEN [pos |-> q + 1, st |-> agtype_in_array_end(val.st)]
        ELSE [pos |-> q, st |-> SyntaxError(val.st)]

parse_array_elements(t, p0, st0) == AfterElement(t, parse_value(t, p0, st0))

parse_value(t, p0, st) ==
    LET p == SkipWs(t, p0)
        c == At(t, p)
        inner == SkipWs(t, p + 1)
    IN  IF st.err # "" THEN [pos |-> p, st |-> st]
        ELSE IF c = "{"
        THEN IF At(t, inner) = "}"
             THEN [pos |-> inner + 1, st |-> agtype_in_object_end(agtype_in_object_start(st))]
             ELSE parse_object_fields(t, p + 1, agtype_in_object_start(st))
        ELSE IF c = "["
        THEN IF At(t, inner) = "]"
             THEN [pos |-> inner + 1, st |-> agtype_in_array_end(agtype_in_array_start(st))]
             ELSE parse_array_elements(t, p + 1, agtype_in_array_start(st))
        ELSE parse_scalar(t, p, st)

\* the end of the input must follow the one value v
EndOfInput(t, v) ==
    IF v.st.err # "" THEN v.st
    ELSE IF SkipWs(t, v.pos) <= Len(t) THEN SyntaxError(v.st)
    ELSE v.st

parse_agtype(t, st) == EndOfInput(t, parse_value(t, 1, st))

(***************************************************************************)
(* A call's outcome: the datum it returns, or SQL NULL, or the error.      *)
(***************************************************************************)
Returned(agt) == [status |-> "ok", err |-> "", agt |-> agt, res |-> Unset, checked |-> {}]

ReturnedNull ==
    [status |-> "null", err |-> "", agt |-> SqlNull, res |-> Unset, checked |-> {}]

Failed(msg) == [status |-> "error", err |-> msg, agt |-> SqlNull, res |-> Unset, checked |-> {}]

\* PG_RETURN_POINTER(agtype_value_to_agtype(state.res)) unless the call failed
ReturnState(st) ==
    IF st.err # "" THEN [Failed(st.err) EXCEPT !.checked = st.checked]
    ELSE [Returned(agtype_value_to_agtype(st.res)) EXCEPT !.res = st.res,
                                                          !.checked = st.checked]

agtype_from_cstring(str) == ReturnState(parse_agtype(str, EmptyState))

(***************************************************************************)
(* Host datums: a value with the OID of its SQL type.  A date or timestamp *)
(* carries the text agtype_encode_date_time gives it, a json datum its     *)
(* text, an array its dimensions and its elements in storage order, a      *)
(* composite its attributes.                                               *)
(***************************************************************************)
BoolDatum(b) == [typoid |-> "BOOLOID", boolean |-> b]

Int8Datum(i) == [typoid |-> "INT8OID", int_value |-> i]

GraphidDatum(i) == [typoid |-> "GRAPHIDOID", int_value |-> i]

Float8Datum(m, e) == [typoid |-> "FLOAT8OID", float_value |-> Float8(m, e)]

NumericDatum(n) == [typoid |-> "NUMERICOID", numeric |-> n]

TextDatum(str) == [typoid |-> "TEXTOID", string |-> str]

DateDatum(encoded) == [typoid |-> "DATEOID", encoded |-> encoded]

JsonDatum(json) == [typoid |-> "JSONOID", json |-> json]

AgtypeDatum(agt) == [typoid |-> "AGTYPEOID", agt |-> agt]

ArrayDatum(elemtype, dims, elements, nulls) ==
    [typoid |-> "ANYARRAYOID", elemtype |-> elemtype, dims |-> dims,
     elements |-> elements, nulls |-> nulls]

Attribute(name, dropped, isnull, val) ==
    [attname |-> name, attisdropped |-> dropped, isnull |-> isnull, val |-> val]

CompositeDatum(atts) == [typoid |-> "RECORDOID", atts |-> atts]

\* the enum agt_type_category, in its declared order
AgtTypeCategories ==
    <<"AGT_TYPE_NULL", "AGT_TYPE_BOOL", "AGT_TYPE_INTEGER", "AGT_TYPE_FLOAT",
      "AGT_TYPE_NUMERIC", "AGT_TYPE_DATE", "AGT_TYPE_TIMESTAMP", "AGT_TYPE_TIMESTAMPTZ",
      "AGT_TYPE_AGTYPE", "AGT_TYPE_JSON", "AGT_TYPE_JSONB", "AGT_TYPE_ARRAY",
      "AGT_TYPE_COMPOSITE", "AGT_TYPE_JSONCAST", "AGT_TYPE_VERTEX", "AGT_TYPE_OTHER">>

CategoryOrdinal(tcategory) ==
    (CHOOSE i \in 1..Len(AgtTypeCategories) : AgtTypeCategories[i] = tcategory) - 1

agtype_categorize_type(typoid) ==
    CASE typoid = "BOOLOID" -> "AGT_TYPE_BOOL"
      [] typoid \in {"INT2OID", "INT4OID", "INT8OID"} -> "AGT_TYPE_INTEGER"
      [] typoid = "FLOAT8OID" -> "AGT_TYPE_FLOAT"
      [] typoid \in {"FLOAT4OID", "NUMERICOID"} -> "AGT_TYPE_NUMERIC"
      [] typoid = "DATEOID" -> "AGT_TYPE_DATE"
      [] typoid = "TIMESTAMPOID" -> "AGT_TYPE_TIMESTAMP"
      [] typoid = "TIMESTAMPTZOID" -> "AGT_TYPE_TIMESTAMPTZ"
      [] typoid = "JSONBOID" -> "AGT_TYPE_JSONB"
      [] typoid = "JSONOID" -> "AGT_TYPE_JSON"
      [] typoid = "AGTYPEOID" -> "AGT_TYPE_AGTYPE"
      [] typoid \in {"ANYARRAYOID", "RECORDARRAYOID"} -> "AGT_TYPE_ARRAY"
      [] typoid = "RECORDOID" -> "AGT_TYPE_COMPOSITE"
      [] typoid = "GRAPHIDOID" -> "AGT_TYPE_INTEGER"
      [] OTHER -> "AGT_TYPE_OTHER"

\* OidOutputFunctionCall(outfuncoid, val): the type's text output
OidOutputFunctionCall(val) ==
    CASE val.typoid \in {"INT8OID", "GRAPHIDOID"} -> int8out(val.int_value)
      [] val.typoid = "FLOAT8OID" -> float8out(val.float_value)
      [] val.typoid = "NUMERICOID" -> numeric_out(val.numeric)
      [] OTHER -> val.string

\* the stack depth at which check_stack_depth() gives up
max_stack_depth == 4

(***************************************************************************)
(* datum_to_agtype and the conversions it recurses through.                *)
(***************************************************************************)
RECURSIVE datum_to_agtype(_, _, _, _, _)
RECURSIVE ArrayDimLoop(_, _, _, _, _, _)
RECURSIVE CompositeLoop(_, _, _)
RECURSIVE ReplayTokens(_, _)

\* "Now insert agtv into result": alone at the root, else into the open frame
InsertAgtv(st, agtv, key_scalar) ==
    IF st.err # "" THEN st
    ELSE IF st.parse_state = <<>>
    THEN push_agtype_value(
             push_agtype_value(
                 push_agtype_value(st, "WAGT_BEGIN_ARRAY", AgtArray(TRUE, <<>>)),
                 "WAGT_ELEM", agtv),
             "WAGT_END_ARRAY", NullPtr)
    ELSE LET o == Last(st.parse_state)
         IN  CASE o.type = "AGTV_ARRAY" -> push_agtype_value(st, "WAGT_ELEM", agtv)
               [] o.type = "AGTV_OBJECT" ->
                    push_agtype_value(st, IF key_scalar THEN "WAGT_KEY" ELSE "WAGT_VALUE", agtv)
               [] OTHER -> Raise(st, "unexpected parent of nested structure")

\* a faulty variant: the token loop never runs
ReplayNothing(it, st) == st

\* a faulty variant: a scalar root is appended with its wrapper
RootWrapper(agt) == AgtBinary(agt)

\* the token loop over a non-scalar agtype or jsonb datum
ReplayTokens(it, st) ==
    LET s == agtype_iterator_next(it, FALSE)
    IN  IF s.tok = "WAGT_DONE" \/ st.err # "" THEN st
        ELSE ReplayTokens(
                 s.it,
                 push_agtype_value(
                     st, s.tok,
                     IF s.tok \in {"WAGT_END_ARRAY", "WAGT_END_OBJECT", "WAGT_BEGIN_ARRAY",
                                   "WAGT_BEGIN_OBJECT"}
                     THEN NullPtr ELSE s.val))

\* the element of a raw-scalar root: the second token of its cursor
RootScalar(agt) ==
    agtype_iterator_next(agtype_iterator_next(agtype_iterator_init(agt), TRUE).it, TRUE).val

ArrayGetNItems(dims) ==
    IF dims = <<>> THEN 0
    ELSE LET RECURSIVE prod(_)
             prod(i) == IF i > Len(dims) THEN 1 ELSE dims[i] * prod(i + 1)
         IN  prod(1)

\* one dimension, from its i-th member on; dim counts from 0, valcount from 0
ArrayDimLoop(st, dim, array, valcount, tcategory, i) ==
    IF i > array.dims[dim + 1]
    THEN [st |-> push_agtype_value(st, "WAGT_END_ARRAY", NullPtr), valcount |-> valcount]
    ELSE IF dim + 1 = Len(array.dims)
    THEN ArrayDimLoop(
             datum_to_agtype(array.elements[valcount + 1], array.nulls[valcount + 1], st,
                             tcategory, FALSE),
             dim, array, valcount + 1, tcategory, i + 1)
    ELSE LET inner == ArrayDimLoop(push_agtype_value(st, "WAGT_BEGIN_ARRAY", NullPtr),
                                   dim + 1, array, valcount, tcategory, 1)
         IN  ArrayDimLoop(inner.st, dim, array, inner.valcount, tcategory, i + 1)

array_dim_to_agtype(st, dim, array, valcount, tcategory) ==
    ArrayDimLoop(push_agtype_value(st, "WAGT_BEGIN_ARRAY", NullPtr),
                 dim, array, valcount, tcategory, 1)

array_to_agtype_internal(array, st) ==
    IF ArrayGetNItems(array.dims) <= 0
    THEN push_agtype_value(push_agtype_value(st, "WAGT_BEGIN_ARRAY", NullPtr),
                           "WAGT_END_ARRAY", NullPtr)
    ELSE array_dim_to_agtype(st, 0, array, 0, agtype_categorize_type(array.elemtype)).st

\* the attributes from the i-th on
CompositeLoop(atts, i, st) ==
    IF i > Len(atts) THEN st
    ELSE IF atts[i].attisdropped THEN CompositeLoop(atts, i + 1, st)
    ELSE CompositeLoop(
             atts, i + 1,
             datum_to_agtype(
                 atts[i].val, atts[i].isnull,
                 push_agtype_value(st, "WAGT_KEY", AgtString(atts[i].attname)),
                 IF atts[i].isnull THEN "AGT_TYPE_NULL"
                 ELSE agtype_categorize_type(atts[i].val.typoid),
                 FALSE))

composite_to_agtype(composite, st) ==
    push_agtype_value(
        CompositeLoop(composite.atts, 1, push_agtype_value(st, "WAGT_BEGIN_OBJECT", NullPtr)),
        "WAGT_END_OBJECT", NullPtr)

\* the switch on tcategory: the state, agtv where it was set, and scalar_agtype
Converted(st, agtv) == [st |-> st, agtv |-> agtv, scalar_agtype |-> FALSE]

DatumSwitch(val, st, tcategory, key_scalar) ==
    LET outputstr == OidOutputFunctionCall(val)
        numeric_error ==
            \E i \in 1..Len(outputstr) : outputstr[i] \in {"N", "n"}
        numd == numeric_in(outputstr)
        keyOr(agtv) == Converted(st, IF key_scalar THEN AgtString(outputstr) ELSE agtv)
    IN  CASE tcategory = "AGT_TYPE_ARRAY" ->
                Converted(array_to_agtype_internal(val, st), Unset)
          [] tcategory = "AGT_TYPE_COMPOSITE" ->
                Converted(composite_to_agtype(val, st), Unset)
          [] tcategory = "AGT_TYPE_BOOL" ->
                Converted(st, IF key_scalar
                              THEN AgtString(IF val.boolean THEN <<"t", "r", "u", "e">>
                                             ELSE <<"f", "a", "l", "s", "e">>)
                              ELSE AgtBool(val.boolean))
          [] tcategory = "AGT_TYPE_INTEGER" -> keyOr(AgtInteger(scanint8(outputstr).value))
          [] tcategory = "AGT_TYPE_FLOAT" ->
                keyOr([type |-> "AGTV_FLOAT", float_value |-> val.float_value])
          [] tcategory = "AGT_TYPE_NUMERIC" ->
                keyOr(IF ~numeric_error
                      THEN [type |-> "AGTV_NUMERIC", numeric |-> numd.value]
                      ELSE AgtString(outputstr))
          [] tcategory \in {"AGT_TYPE_DATE", "AGT_TYPE_TIMESTAMP", "AGT_TYPE_TIMESTAMPTZ"} ->
                Converted(st, AgtString(val.encoded))
          [] tcategory \in {"AGT_TYPE_JSONCAST", "AGT_TYPE_JSON"} ->
                Converted(parse_agtype(val.json, st), Unset)
          [] tcategory \in {"AGT_TYPE_AGTYPE", "AGT_TYPE_JSONB"} ->
                IF AGT_ROOT_IS_SCALAR(val.agt)
                THEN [st |-> st, agtv |-> RootScalar(val.agt), scalar_agtype |-> TRUE]
                ELSE Converted(ReplayTokens(agtype_iterator_init(val.agt), st), Unset)
          [] OTHER ->
                Converted(check_string_length(st, Len(outputstr)), AgtString(outputstr))

\* a faulty variant: agtv is inserted after a conversion that recursed too
InsertAfterRecursion(sw, is_null, tcategory, key_scalar) ==
    InsertAgtv(sw.st, IF sw.agtv = Unset THEN AgtNull ELSE sw.agtv, key_scalar)

\* "Now insert agtv into result, unless we did it recursively"
InsertConverted(sw, is_null, tcategory, key_scalar) ==
    IF ~is_null /\ ~sw.scalar_agtype
       /\ CategoryOrdinal(tcategory) >= CategoryOrdinal("AGT_TYPE_AGTYPE")
       /\ CategoryOrdinal(tcategory) <= CategoryOrdinal("AGT_TYPE_JSONCAST")
    THEN sw.st
    ELSE InsertAgtv(sw.st, sw.agtv, key_scalar)

\* a faulty variant: the stack is never too deep
StackUnbounded(st) == st

\* check_stack_depth() on entry to a call that will be one deeper
check_stack_depth(st) ==
    IF st.err # "" THEN st
    ELSE IF st.depth + 1 > max_stack_depth THEN Raise(st, "stack depth limit exceeded")
    ELSE st

\* the state leaves the call at the depth it entered it, unless an error
\* ended the call where it was
AtDepth(st, depth) == IF st.err # "" THEN st ELSE [st EXCEPT !.depth = depth]

datum_to_agtype(val, is_null, st0, tcategory, key_scalar) ==
    IF check_stack_depth(st0).err # "" THEN check_stack_depth(st0)
    ELSE IF ~is_null /\ key_scalar
            /\ tcategory \in {"AGT_TYPE_ARRAY", "AGT_TYPE_COMPOSITE", "AGT_TYPE_JSON",
                              "AGT_TYPE_JSONB", "AGT_TYPE_AGTYPE", "AGT_TYPE_JSONCAST"}
    THEN Raise(st0, "key value must be scalar, not array, composite, or json")
    ELSE AtDepth(
             InsertConverted(
                 IF is_null THEN Converted(AtDepth(st0, st0.depth + 1), AgtNull)
                 ELSE DatumSwitch(val, AtDepth(st0, st0.depth + 1), tcategory, key_scalar),
                 is_null, tcategory, key_scalar),
             st0.depth)

\* an argument of a variadic "any" function: a datum, or NULL of some type
Arg(val) == [isnull |-> FALSE, val |-> val]

NullArg == [isnull |-> TRUE, val |-> [typoid |-> "UNKNOWNOID"]]

add_agtype(val, is_null, st, val_type, key_scalar) ==
    IF val_type = "InvalidOid" THEN Raise(st, "could not determine input data type")
    ELSE datum_to_agtype(val, is_null, st,
                         IF is_null THEN "AGT_TYPE_NULL" ELSE agtype_categorize_type(val_type),
                         key_scalar)

\* push_agtype_value(&result.parse_state, tok, string_to_agtype_value(str))
PushString(st, tok, str) ==
    push_agtype_value(check_string_length(st, Len(str)), tok, AgtString(str))

(***************************************************************************)
(* The builders.  Every argument is an Arg; a label is a cstring, kept as  *)
(* a TextDatum.                                                            *)
(***************************************************************************)
KeyId == <<"i", "d">>

KeyStartId == <<"s", "t", "a", "r", "t", "_", "i", "d">>

\* a faulty variant: the end of an edge is stored under the key of its start
KeyOfTheStart == KeyStartId

KeyEndId == <<"e", "n", "d", "_", "i", "d">>

KeyLabel == <<"l", "a", "b", "e", "l">>

KeyProperties == <<"p", "r", "o", "p", "e", "r", "t", "i", "e", "s">>

\* "process graphid" and its like: the key, the NULL check, the graphid
GraphidField(st, key, arg, msg) ==
    LET k == PushString(st, "WAGT_KEY", key)
    IN  IF arg.isnull THEN Raise(k, msg)
        ELSE add_agtype(arg.val, FALSE, k, "GRAPHIDOID", FALSE)

LabelField(st, arg) ==
    LET k == PushString(st, "WAGT_KEY", KeyLabel)
    IN  IF arg.isnull THEN Raise(k, "agtype_build_vertex() label cannot be NULL")
        ELSE PushString(k, "WAGT_VALUE", arg.val.string)

PropertiesField(st, arg) ==
    LET k == PushString(st, "WAGT_KEY", KeyProperties)
    IN  IF arg.isnull
        THEN push_agtype_value(push_agtype_value(k, "WAGT_BEGIN_OBJECT", NullPtr),
                               "WAGT_END_OBJECT", NullPtr)
        ELSE IF ~AGT_ROOT_IS_OBJECT(arg.val.agt)
        THEN Raise(k, "agtype_build_vertex() properties argument must be an object")
        ELSE add_agtype(arg.val, FALSE, k, "AGTYPEOID", FALSE)

\* result.res->type = tag; PG_RETURN_POINTER(agtype_value_to_agtype(result.res))
ReturnTagged(st, tag) ==
    IF st.err # "" THEN ReturnState(st)
    ELSE ReturnState([st EXCEPT !.res.type = tag])

_agtype_build_vertex(id, label, properties) ==
    LET opened == push_agtype_value(EmptyState, "WAGT_BEGIN_OBJECT", NullPtr)
        withId == GraphidField(opened, KeyId, id,
                               "agtype_build_vertex() graphid cannot be NULL")
        withProps == PropertiesField(LabelField(withId, label), properties)
    IN  ReturnTagged(push_agtype_value(withProps, "WAGT_END_OBJECT", NullPtr), "AGTV_VERTEX")

_agtype_build_edge(id, start_id, end_id, label, properties) ==
    LET opened == push_agtype_value(EmptyState, "WAGT_BEGIN_OBJECT", NullPtr)
        withId == GraphidField(opened, KeyId, id,
                               "agtype_build_vertex() graphid cannot be NULL")
        withStart == GraphidField(withId, KeyStartId, start_id,
                                  "agtype_build_vertex() startid cannot be NULL")
        withEnd == GraphidField(withStart, KeyEndId, end_id,
                                "agtype_build_vertex() endoid cannot be NULL")
        withProps == PropertiesField(LabelField(withEnd, label), properties)
    IN  ReturnTagged(push_agtype_value(withProps, "WAGT_END_OBJECT", NullPtr), "AGTV_EDGE")

\* a faulty variant: the pairs are taken from the last to the first
RECURSIVE BuildMapLoopBackwards(_, _, _)
BuildMapLoopBackwards(args, i, st) ==
    IF i >= Len(args) \/ st.err # "" THEN st
    ELSE LET k == Len(args) - i - 1
         IN  IF args[k].isnull THEN Raise(st, "key must not be null")
             ELSE BuildMapLoopBackwards(
                      args, i + 2,
                      add_agtype(args[k + 1].val, args[k + 1].isnull,
                                 add_agtype(args[k].val, FALSE, st, args[k].val.typoid, TRUE),
                                 args[k + 1].val.typoid, FALSE))

\* the key and value arguments from the i-th (from 0) on
RECURSIVE BuildMapLoop(_, _, _)
BuildMapLoop(args, i, st) ==
    IF i >= Len(args) \/ st.err # "" THEN st
    ELSE IF args[i + 1].isnull THEN Raise(st, "key must not be null")
    ELSE BuildMapLoop(
             args, i + 2,
             add_agtype(args[i + 2].val, args[i + 2].isnull,
                        add_agtype(args[i + 1].val, FALSE, st, args[i + 1].val.typoid, TRUE),
                        args[i + 2].val.typoid, FALSE))

agtype_build_map(args) ==
    IF Len(args) % 2 # 0 THEN Failed("argument list must have been even number of elements")
    ELSE ReturnState(
             push_agtype_value(
                 BuildMapLoop(args, 0, push_agtype_value(EmptyState, "WAGT_BEGIN_OBJECT", NullPtr)),
                 "WAGT_END_OBJECT", NullPtr))

RECURSIVE BuildListLoop(_, _, _)
BuildListLoop(args, i, st) ==
    IF i >= Len(args) THEN st
    ELSE BuildListLoop(args, i + 1,
                       add_agtype(args[i + 1].val, args[i + 1].isnull, st,
                                  args[i + 1].val.typoid, FALSE))

agtype_build_list(args) ==
    ReturnState(
        push_agtype_value(
            BuildListLoop(args, 0, push_agtype_value(EmptyState, "WAGT_BEGIN_ARRAY", NullPtr)),
            "WAGT_END_ARRAY", NullPtr))

(***************************************************************************)
(* The access operator.  A helper returns an agtype, NULL (ReturnedNull)   *)
(* or fails.                                                               *)
(***************************************************************************)
\* a faulty variant: a key that is no string is a key the map does not hold
MapAccessAnyKey(map, key) ==
    LET key_value == get_ith_agtype_value_from_container(key, 0)
    IN  IF key_value.type # "AGTV_STRING" THEN ReturnedNull
        ELSE LET map_value == find_agtype_value_from_container(map, key_value)
             IN  IF map_value = NullPtr THEN ReturnedNull
                 ELSE Returned(agtype_value_to_agtype(map_value))

execute_map_access_operator(map, key) ==
    LET key_value == get_ith_agtype_value_from_container(key, 0)
    IN  CASE key_value.type = "AGTV_NULL" -> ReturnedNull
          [] key_value.type = "AGTV_INTEGER" -> Failed("AGTV_INTEGER is not a valid key type")
          [] key_value.type = "AGTV_FLOAT" -> Failed("AGTV_FLOAT is not a valid key type")
          [] key_value.type = "AGTV_NUMERIC" -> Failed("AGTV_NUMERIC is not a valid key type")
          [] key_value.type = "AGTV_BOOL" -> Failed("AGTV_BOOL is not a valid key type")
          [] key_value.type = "AGTV_STRING" ->
                LET map_value == find_agtype_value_from_container(map, AgtString(key_value.string))
                IN  IF map_value = NullPtr THEN ReturnedNull
                    ELSE Returned(agtype_value_to_agtype(map_value))
          [] OTHER -> Failed("unknown agtype scalar type")

\* a faulty variant: a negative index is not counted from the end
ArrayAccessFromStartOnly(array, element) ==
    LET element_value == get_ith_agtype_value_from_container(element, 0)
        size == AGT_ROOT_COUNT(array)
        index == element_value.int_value
    IN  IF element_value.type = "AGTV_NULL" THEN ReturnedNull
        ELSE IF element_value.type # "AGTV_INTEGER"
        THEN Failed("array index must resolve to an integer value")
        ELSE IF index >= size \/ index < 0 THEN ReturnedNull
        ELSE Returned(agtype_value_to_agtype(get_ith_agtype_value_from_container(array, index)))

execute_array_access_operator(array, element) ==
    LET element_value == get_ith_agtype_value_from_container(element, 0)
        size == AGT_ROOT_COUNT(array)
        index == IF element_value.int_value < 0 THEN size + element_value.int_value
                 ELSE element_value.int_value
    IN  IF element_value.type = "AGTV_NULL" THEN ReturnedNull
        ELSE IF element_value.type # "AGTV_INTEGER"
        THEN Failed("array index must resolve to an integer value")
        ELSE IF index >= size \/ index < 0 THEN ReturnedNull
        ELSE LET array_value == get_ith_agtype_value_from_container(array, index)
             IN  IF array_value = NullPtr THEN ReturnedNull
                 ELSE Returned(agtype_value_to_agtype(array_value))

\* the loop over the keys, from the i-th argument (from 0) on
RECURSIVE AccessLoop(_, _, _)
AccessLoop(args, i, object) ==
    IF i >= Len(args) THEN Returned(object)
    ELSE IF args[i + 1].isnull THEN ReturnedNull
    ELSE LET key == args[i + 1].val.agt
             step == IF AGT_ROOT_IS_OBJECT(object) THEN execute_map_access_operator(object, key)
                     ELSE IF AGT_ROOT_IS_ARRAY(object)
                     THEN execute_array_access_operator(object, key)
                     ELSE Failed("container must be an array or object")
         IN  IF ~AGT_ROOT_IS_SCALAR(key) THEN Failed("key must resolve to a scalar value")
             ELSE IF step.status # "ok" THEN step
             ELSE AccessLoop(args, i + 1, step.agt)

\* a faulty variant: pair 2 is read whatever the tag, as the line the source
\* comments out did
AccessThroughPairTwo(args) ==
    IF Len(args) < 2 THEN ReturnedNull
    ELSE LET object == args[1].val.agt
             v == get_ith_agtype_value_from_container(object, 0)
         IN  IF ~AGT_ROOT_IS_SCALAR(object) THEN AccessLoop(args, 1, object)
             ELSE IF v.type \in {"AGTV_VERTEX", "AGTV_EDGE"}
             THEN AccessLoop(args, 1, agtype_value_to_agtype(v.pairs[3].value))
             ELSE Failed("container must be an array or object")

agtype_access_operator(args) ==
    IF Len(args) < 2 THEN ReturnedNull
    ELSE LET object == args[1].val.agt
             v == get_ith_agtype_value_from_container(object, 0)
         IN  IF ~AGT_ROOT_IS_SCALAR(object) THEN AccessLoop(args, 1, object)
             ELSE IF v.type = "AGTV_VERTEX"
             THEN AccessLoop(args, 1, agtype_value_to_agtype(v.pairs[3].value))
             ELSE IF v.type = "AGTV_EDGE"
             THEN AccessLoop(args, 1, agtype_value_to_agtype(v.pairs[5].value))
             ELSE Failed("container must be an array or object")

(***************************************************************************)
(* List slices.                                                            *)
(***************************************************************************)
\* a bound argument: NULL when the argument is SQL NULL or holds agtype null
BoundValue(arg) ==
    IF arg.isnull THEN NullPtr
    ELSE LET b == get_ith_agtype_value_from_container(arg.val.agt, 0)
         IN  IF b.type = "AGTV_NULL" THEN NullPtr ELSE b

\* a faulty variant: a negative bound is clamped without the size added to it
ClampOnly(index, array_size) ==
    IF index < 0 THEN 0 ELSE IF index > array_size THEN array_size ELSE index

\* "adjust for negative and out of bounds index values"
AdjustIndex(index, array_size) ==
    LET wrapped == IF index < 0 THEN array_size + index ELSE index
        floored == IF wrapped < 0 THEN 0 ELSE wrapped
    IN  IF floored > array_size THEN array_size ELSE floored

RECURSIVE SliceLoop(_, _, _, _)
SliceLoop(array, i, upper_index, st) ==
    IF i >= upper_index THEN st
    ELSE SliceLoop(array, i + 1, upper_index,
                   push_agtype_value(st, "WAGT_ELEM",
                                     get_ith_agtype_value_from_container(array, i)))

agtype_access_slice(arr, lidx, uidx) ==
    IF arr.isnull THEN ReturnedNull
    ELSE IF lidx.isnull /\ uidx.isnull THEN Failed("slice start and/or end is required")
    ELSE
    LET array == arr.val.agt
        array_size == AGT_ROOT_COUNT(array)
        lidx_value == BoundValue(lidx)
        uidx_value == BoundValue(uidx)
        lower_index == AdjustIndex(IF lidx_value = NullPtr THEN 0 ELSE lidx_value.int_value,
                                   array_size)
        upper_index == AdjustIndex(IF uidx_value = NullPtr THEN array_size
                                   ELSE uidx_value.int_value, array_size)
        opened == push_agtype_value(EmptyState, "WAGT_BEGIN_ARRAY", NullPtr)
    IN  IF ~AGT_ROOT_IS_ARRAY(array) \/ AGT_ROOT_IS_SCALAR(array)
        THEN Failed("slice must access a list")
        ELSE IF lidx_value = NullPtr /\ uidx_value = NullPtr
        THEN Failed("slice start and/or end is required")
        ELSE IF (lidx_value # NullPtr /\ lidx_value.type # "AGTV_INTEGER")
                \/ (uidx_value # NullPtr /\ uidx_value.type # "AGTV_INTEGER")
        THEN Failed("array slices must resolve to an integer value")
        ELSE ReturnState(push_agtype_value(SliceLoop(array, lower_index, upper_index, opened),
                                           "WAGT_END_ARRAY", NullPtr))

(***************************************************************************)
(* The comparator (spec.md section 4.4, "Ordering/equality").  A result    *)
(* is -1, 0 or 1.                                                          *)
(***************************************************************************)
Cmp(a, b) == IF a < b THEN -1 ELSE IF a > b THEN 1 ELSE 0

\* the characters of the model in ascending byte order
ByteOrder ==
    <<"<01>", "<08>", "<09>", "<0a>", "<0c>", "<0d>", "<1f>", " ", "\"", "+", ",", "-", ".",
      "/", "0", "1", "2", "3", "4", "5", "6", "7", "8", "9", ":", "A", "C", "E", "F", "G",
      "I", "L", "M", "N", "O", "R", "T", "U", "X", "[", "\\", "]", "_", "a", "b", "c", "d",
      "e", "f", "g", "h", "i", "j", "k", "l", "m", "n", "o", "p", "q", "r", "s", "t", "u",
      "v", "w", "x", "y", "z", "{", "}">>

ByteValue(c) == IndexOf(ByteOrder, c)

\* "Strings compare byte-wise lexicographically."
RECURSIVE CompareBytes(_, _)
CompareBytes(a, b) ==
    IF a = <<>> \/ b = <<>> THEN Cmp(Len(a), Len(b))
    ELSE IF a[1] # b[1] THEN Cmp(ByteValue(a[1]), ByteValue(b[1]))
    ELSE CompareBytes(Tail(a), Tail(b))

RECURSIVE Pow10(_)
Pow10(k) == IF k = 0 THEN 1 ELSE 10 * Pow10(k - 1)

\* the common representation of a number: tenths * 10^exp, or NaN
NumberOf(v) ==
    CASE v.type = "AGTV_INTEGER" -> Float8(10 * v.int_value, 0)
      [] v.type = "AGTV_FLOAT" -> v.float_value
      [] v.type = "AGTV_NUMERIC" ->
            IF v.numeric.nan THEN Float8NaN ELSE Float8(v.numeric.tenths, 0)

\* two positive numbers: by their order of magnitude, then by their digits
ComparePositive(a, b) ==
    LET da == Len(NatToChars(a.tenths)) + a.exp
        db == Len(NatToChars(b.tenths)) + b.exp
    IN  IF da # db THEN Cmp(da, db)
        ELSE IF a.exp >= b.exp THEN Cmp(a.tenths * Pow10(a.exp - b.exp), b.tenths)
        ELSE Cmp(a.tenths, b.tenths * Pow10(b.exp - a.exp))

\* "Within Number, compare by numeric value"; NaN is equal to NaN and above
\* every other number, as the host orders it
CompareNumbers(a, b) ==
    LET sa == Cmp(a.tenths, 0)
        sb == Cmp(b.tenths, 0)
        pos(n) == [tenths |-> Abs(n.tenths), exp |-> n.exp]
    IN  IF a.nan \/ b.nan THEN Cmp(IF a.nan THEN 1 ELSE 0, IF b.nan THEN 1 ELSE 0)
        ELSE IF sa # sb THEN Cmp(sa, sb)
        ELSE IF sa = 0 THEN 0
        ELSE sa * ComparePositive(pos(a), pos(b))

NumberTypes == {"AGTV_INTEGER", "AGTV_FLOAT", "AGTV_NUMERIC"}

\* "Null < Bool < Number < String < Array < Object < Vertex < Edge"
TypeRank(v) ==
    CASE v.type = "AGTV_NULL" -> 0
      [] v.type = "AGTV_BOOL" -> 1
      [] v.type \in NumberTypes -> 2
      [] v.type = "AGTV_STRING" -> 3
      [] v.type = "AGTV_BINARY" -> IF v.data.is_array THEN 4 ELSE 5
      [] v.type = "AGTV_VERTEX" -> 6
      [] v.type = "AGTV_EDGE" -> 7

\* the pairs of an object put in sorted-key order
RECURSIVE SortPairs(_)
SortPairs(pairs) ==
    IF pairs = <<>> THEN <<>>
    ELSE LET least == CHOOSE i \in 1..Len(pairs) :
                         \A j \in 1..Len(pairs) :
                             LET c == CompareBytes(pairs[i].key.string, pairs[j].key.string)
                             IN  c < 0 \/ (c = 0 /\ i <= j)
         IN  <<pairs[least]>>
                 \o SortPairs([k \in 1..(Len(pairs) - 1) |->
                                  IF k < least THEN pairs[k] ELSE pairs[k + 1]])

ContainerPairs(c) ==
    [i \in 1..c.count |-> Pair(c.children[2 * i - 1], fill_agtype_value(c.children[2 * i]))]

ContainerElems(c) == [i \in 1..c.count |-> fill_agtype_value(c.children[i])]

\* a value as the comparator sees it: a raw-scalar wrapper stands for its scalar
Comparand(c) == IF c.is_scalar THEN fill_agtype_value(c.children[1]) ELSE AgtBinary(c)

RECURSIVE CompareValues(_, _)
\* element-wise, then by length on a common prefix
RECURSIVE CompareElems(_, _)
CompareElems(a, b) ==
    IF a = <<>> \/ b = <<>> THEN Cmp(Len(a), Len(b))
    ELSE LET c == CompareValues(a[1], b[1])
         IN  IF c # 0 THEN c ELSE CompareElems(Tail(a), Tail(b))

\* by key count, then key by key and value by value in sorted-key order
RECURSIVE ComparePairs(_, _)
ComparePairs(a, b) ==
    IF Len(a) # Len(b) THEN Cmp(Len(a), Len(b))
    ELSE IF a = <<>> THEN 0
    ELSE LET k == CompareBytes(a[1].key.string, b[1].key.string)
             v == CompareValues(a[1].value, b[1].value)
         IN  IF k # 0 THEN k ELSE IF v # 0 THEN v ELSE ComparePairs(Tail(a), Tail(b))

compare_agtype_scalar_values(a, b) ==
    IF TypeRank(a) # TypeRank(b) THEN Cmp(TypeRank(a), TypeRank(b))
    ELSE CASE a.type = "AGTV_NULL" -> 0
           [] a.type = "AGTV_BOOL" -> Cmp(IF a.boolean THEN 1 ELSE 0, IF b.boolean THEN 1 ELSE 0)
           [] a.type \in NumberTypes -> CompareNumbers(NumberOf(a), NumberOf(b))
           [] a.type = "AGTV_STRING" -> CompareBytes(a.string, b.string)
           [] OTHER -> ComparePairs(SortPairs(a.pairs), SortPairs(b.pairs))

CompareValues(a, b) ==
    IF TypeRank(a) # TypeRank(b) THEN Cmp(TypeRank(a), TypeRank(b))
    ELSE IF a.type # "AGTV_BINARY" THEN compare_agtype_scalar_values(a, b)
    ELSE IF a.data.is_array THEN CompareElems(ContainerElems(a.data), ContainerElems(b.data))
    ELSE ComparePairs(SortPairs(ContainerPairs(a.data)), SortPairs(ContainerPairs(b.data)))

compare_agtype_containers_orderability(a, b) == CompareValues(Comparand(a), Comparand(b))

(***************************************************************************)
(* The IN operator.                                                        *)
(***************************************************************************)
boolean_to_agtype(b) == Returned(agtype_value_to_agtype(AgtBool(b)))

\* a faulty variant: two containers are never compared
RECURSIVE InLoopOverScalars(_, _, _, _, _)
InLoopOverScalars(it_array, i, array_size, agt_item, agtv_item) ==
    IF i >= array_size THEN FALSE
    ELSE LET s == agtype_iterator_next(it_array, TRUE)
         IN  \/ /\ IS_A_AGTYPE_SCALAR(agtv_item)
                /\ IS_A_AGTYPE_SCALAR(s.val)
                /\ agtv_item.type = s.val.type
                /\ compare_agtype_scalar_values(agtv_item, s.val) = 0
             \/ InLoopOverScalars(s.it, i + 1, array_size, agt_item, agtv_item)

\* the loop over the elements: it stops at the first one equal to the item
RECURSIVE InLoop(_, _, _, _, _)
InLoop(it_array, i, array_size, agt_item, agtv_item) ==
    IF i >= array_size THEN FALSE
    ELSE LET s == agtype_iterator_next(it_array, TRUE)
             agtv_elem == s.val
             result ==
                 IF ~IS_A_AGTYPE_SCALAR(agtv_item) /\ ~IS_A_AGTYPE_SCALAR(agtv_elem)
                 THEN compare_agtype_containers_orderability(agt_item, agtv_elem.data) = 0
                 ELSE /\ IS_A_AGTYPE_SCALAR(agtv_item)
                      /\ IS_A_AGTYPE_SCALAR(agtv_elem)
                      /\ agtv_item.type = agtv_elem.type
                      /\ compare_agtype_scalar_values(agtv_item, agtv_elem) = 0
         IN  result \/ InLoop(s.it, i + 1, array_size, agt_item, agtv_item)

agtype_in_operator(list, item) ==
    IF list.isnull THEN ReturnedNull
    ELSE
    LET agt_array == list.val.agt
        agt_item == item.val.agt
        open_array == agtype_iterator_next(agtype_iterator_init(agt_array), FALSE)
        open_item == agtype_iterator_next(agtype_iterator_init(agt_item), FALSE)
        agtv_item == IF open_item.val.type = "AGTV_ARRAY" /\ open_item.val.raw_scalar
                     THEN agtype_iterator_next(open_item.it, FALSE).val
                     ELSE open_item.val
    IN  IF ~AGT_ROOT_IS_ARRAY(agt_array) THEN Failed("object of IN must be a list")
        ELSE IF open_array.val.type = "AGTV_ARRAY" /\ open_array.val.raw_scalar
        THEN IF agtype_iterator_next(open_array.it, FALSE).val.type = "AGTV_NULL"
             THEN ReturnedNull
             ELSE Failed("object of IN must be a list")
        ELSE IF item.isnull THEN ReturnedNull
        ELSE IF open_item.val.type = "AGTV_ARRAY" /\ open_item.val.raw_scalar
                /\ agtv_item.type = "AGTV_NULL"
        THEN ReturnedNull
        ELSE boolean_to_agtype(
                 InLoop(open_array.it, 0, AGT_ROOT_COUNT(agt_array), agt_item, agtv_item))

(***************************************************************************)
(* The typecast to numeric, with the host's int8_numeric and              *)
(* float8_numeric: a float NaN is the numeric NaN.                         *)
(***************************************************************************)
\* a faulty variant: the integer is taken for a count of tenths
Int8AsTenths(i) == Numeric(i, 0)

int8_numeric(i) == Numeric(10 * i, 0)

\* the float is printed with DBL_DIG digits and the text read as a numeric
float8_numeric(f) == IF f.nan THEN NumericNaN ELSE numeric_in(float8out(f)).value

agtype_typecast_numeric(arg) ==
    IF arg.isnull THEN ReturnedNull
    ELSE IF ~AGT_ROOT_IS_SCALAR(arg.val.agt)
    THEN Failed("typecast argument must resolve to a scalar value")
    ELSE LET arg_value == get_ith_agtype_value_from_container(arg.val.agt, 0)
             result(numd) ==
                 Returned(agtype_value_to_agtype([type |-> "AGTV_NUMERIC", numeric |-> numd]))
         IN  CASE arg_value.type = "AGTV_NULL" -> ReturnedNull
               [] arg_value.type = "AGTV_INTEGER" -> result(int8_numeric(arg_value.int_value))
               [] arg_value.type = "AGTV_FLOAT" -> result(float8_numeric(arg_value.float_value))
               [] arg_value.type = "AGTV_NUMERIC" ->
                    Returned(agtype_value_to_agtype(arg_value))
               [] OTHER -> Failed("expression to typecast must resolve to a number")

(***************************************************************************)
(* The scalar constructors.                                                *)
(***************************************************************************)
integer_to_agtype(i) == Returned(agtype_value_to_agtype(AgtInteger(i)))

float_to_agtype(f) ==
    Returned(agtype_value_to_agtype([type |-> "AGTV_FLOAT", float_value |-> f]))

string_to_agtype(str) ==
    LET st == check_string_length(EmptyState, Len(str))
    IN  IF st.err # "" THEN ReturnState(st)
        ELSE [Returned(agtype_value_to_agtype(AgtString(str))) EXCEPT !.checked = st.checked]

(***************************************************************************)
(* The session.  A client holds one agtype datum (cur) and calls the SQL   *)
(* functions of agtype.c on it, one call per step; the datum a call        *)
(* returns replaces the one held, and a call that fails leaves it alone.   *)
(***************************************************************************)
\* the size of a datum: one for each container, one for each scalar of an
\* array, one for the scalars of an object together, and a vertex or an edge
\* one more than its properties
RECURSIVE NodeCount(_)
RECURSIVE EntriesCount(_, _)
EntriesCount(c, i) ==
    IF i > Len(c.children) THEN 0
    ELSE LET e == c.children[i]
             n == IF e.type = "AGT_CONTAINER" THEN NodeCount(e.data)
                  ELSE IF e.type \in {"AGTV_VERTEX", "AGTV_EDGE"}
                  THEN 1 + NodeCount(Last(e.data.children).data)
                  ELSE IF c.is_array THEN 1
                  ELSE 0
         IN  n + EntriesCount(c, i + 1)

NodeCount(c) ==
    (IF c.is_scalar THEN 0 ELSE 1)
        + (IF ~c.is_array /\ \E i \in 1..c.count : IS_A_AGTYPE_SCALAR(c.children[2 * i])
           THEN 1 ELSE 0)
        + EntriesCount(c, 1)

CStringDatum(str) == [typoid |-> "CSTRINGOID", string |-> str]

Call(fn, args, out) ==
    [fn |-> fn, args |-> args, status |-> out.status, err |-> out.err, checked |-> out.checked]

\* the held datum as an argument
CurArg == IF cur = SqlNull THEN NullArg ELSE Arg(AgtypeDatum(cur))

\* the end of a call that returns an agtype
Finish(fn, args, out) ==
    /\ out.status = "ok" => NodeCount(out.agt) <= MaxSize
    /\ cur' = IF out.status = "error" THEN cur ELSE out.agt
    /\ src' = cur
    /\ text' = <<>>
    /\ last' = Call(fn, args, out)
    /\ tree' = out.res
    /\ UNCHANGED <<its, lookups, analyzed>>

\* a string longer than an entry can hold
LongString == [i \in 1..(AGTENTRY_OFFLENMASK + 2) |-> "a"]

\* the texts a client sends: one holds a string that is too long, the last
\* three are malformed
TextInputs ==
    {<<"n", "u", "l", "l">>,
     <<"2">>,
     <<"2", ".", "0">>,
     <<"2", ":", ":", "n", "u", "m", "e", "r", "i", "c">>,
     <<"2", ":", ":", "N", "U", "M", "E", "R", "I", "C">>,
     <<"2", ":", ":", "f", "l", "o", "a", "t">>,
     <<"\"", "a", "\"">>,
     <<"\"", "N", "a", "N", "\"", ":", ":", "f", "l", "o", "a", "t">>,
     <<"[", "1", ",", " ", "2", "]">>,
     <<"{", "\"", "a", "\"", ":", " ", "1", ",", " ", "\"", "b", "\"", ":", " ", "2", "}">>,
     <<"{", "\"", "b", "\"", ":", " ", "2", ",", " ", "\"", "a", "\"", ":", " ", "1", "}">>,
     <<"\"">> \o LongString \o <<"\"">>,
     <<"[", "1", ",">>,
     <<"2", ":", ":", "x">>,
     <<"[", "1", ",", " ", "2", ":", ":", "x", "]">>}

\* agtype_in: a text of the client, or the text the last call put out
AgtypeIn ==
    \E str \in TextInputs \cup (IF text = <<>> THEN {} ELSE {text}) :
        Finish("agtype_in", <<Arg(CStringDatum(str))>>, agtype_from_cstring(str))

\* agtype_out, and the indenting output of the same datum
AgtypeOut ==
    /\ cur # SqlNull
    /\ \E indent \in BOOLEAN :
          /\ text' = IF indent THEN agtype_to_cstring_indent(cur) ELSE agtype_to_cstring(cur)
          /\ last' = Call(IF indent THEN "agtype_to_cstring_indent" ELSE "agtype_out",
                          <<CurArg>>, ReturnedNull)
    /\ src' = cur
    /\ tree' = Unset
    /\ UNCHANGED <<cur, its, lookups, analyzed>>

\* arguments of the host's types
Int2Arg == Arg(Int8Datum(2))

Float2Arg == Arg(Float8Datum(20, 0))

TextArg(str) == Arg(TextDatum(str))

\* n composites one inside the other, the innermost holding an integer
RECURSIVE NestedComposite(_)
NestedComposite(n) ==
    CompositeDatum(<<Attribute(<<"a">>, FALSE, FALSE,
                               IF n <= 1 THEN Int8Datum(1) ELSE NestedComposite(n - 1))>>)

\* a string of every kind of byte escape_agtype tells apart
EscapeSample == <<"<08>", "<0c>", "<0a>", "<0d>", "<09>", "\"", "\\", "<01>", "<1f>", "a">>

\* a composite whose integer is one call deeper than the stack allows
DeepDatum == NestedComposite(max_stack_depth)

HostArgs ==
    {Arg(BoolDatum(TRUE)),
     Arg(Float8Datum(20, 20)),
     Arg(NumericDatum(NumericNaN)),
     Arg(DateDatum(<<"2", "0", "0", "0", "-", "0", "1", "-", "0", "1">>)),
     TextArg(LongString),
     TextArg(EscapeSample),
     Arg(JsonDatum(<<"[", "1", "]">>)),
     Arg(NestedComposite(2)),
     Arg(DeepDatum),
     Arg(ArrayDatum("INT8OID", <<1>>, <<Int8Datum(1)>>, <<TRUE>>)),
     Arg(CompositeDatum(<<Attribute(<<"a">>, FALSE, FALSE, Int8Datum(1)),
                          Attribute(<<"b">>, TRUE, FALSE, Int8Datum(2))>>))}

ListArgs ==
    LET pool == {NullArg, Int2Arg, Float2Arg, CurArg}
    IN  {<<>>, <<Int2Arg, Float2Arg>>, <<CurArg, Int2Arg>>, <<NullArg, CurArg>>}
            \cup {<<a>> : a \in pool \cup HostArgs}

BuildList == \E args \in ListArgs : Finish("agtype_build_list", args, agtype_build_list(args))

\* keys of the host's scalar types, and keys that are no scalars
KeyDatums ==
    {BoolDatum(TRUE), Float8Datum(20, 0), NumericDatum(Numeric(25, 1)),
     DateDatum(<<"2", "0", "0", "0", "-", "0", "1", "-", "0", "1">>),
     JsonDatum(<<"[", "1", "]">>),
     ArrayDatum("INT8OID", <<1>>, <<Int8Datum(1)>>, <<FALSE>>),
     CompositeDatum(<<Attribute(<<"a">>, FALSE, FALSE, Int8Datum(1))>>)}

MapArgs ==
    LET a == TextArg(<<"a">>)
        b == TextArg(<<"b">>)
    IN  {<<>>, <<a>>, <<NullArg, Int2Arg>>, <<CurArg, Int2Arg>>, <<Int2Arg, Float2Arg>>,
         <<a, Int2Arg, b, Float2Arg>>, <<b, Float2Arg, a, Int2Arg>>,
         <<Arg(BoolDatum(FALSE)), Int2Arg, a, Float2Arg>>,
         <<a, Int2Arg, NullArg, Int2Arg>>, <<a, Int2Arg, b>>}
            \cup {<<a, v>> : v \in {Int2Arg, CurArg, NullArg}}
            \cup {<<Arg(k), Int2Arg>> : k \in KeyDatums}

BuildMap == \E args \in MapArgs : Finish("agtype_build_map", args, agtype_build_map(args))

GraphidArg(i) == Arg(GraphidDatum(i))

\* three good arguments, or two of them and one NULL
VertexArgs ==
    LET good == <<GraphidArg(1), TextArg(<<"v">>), CurArg>>
    IN  {good} \cup {[good EXCEPT ![i] = NullArg] : i \in 1..3}

BuildVertex ==
    \E args \in VertexArgs :
        Finish("_agtype_build_vertex", args, _agtype_build_vertex(args[1], args[2], args[3]))

\* five good arguments, or four of them and one NULL
EdgeArgs ==
    LET good == <<GraphidArg(1), GraphidArg(2), GraphidArg(3), TextArg(<<"e">>), CurArg>>
    IN  {good} \cup {[good EXCEPT ![i] = NullArg] : i \in 1..5}

BuildEdge ==
    \E args \in EdgeArgs :
        Finish("_agtype_build_edge", args,
               _agtype_build_edge(args[1], args[2], args[3], args[4], args[5]))

AgtArg(out) == Arg(AgtypeDatum(out.agt))

IndexArgs == {AgtArg(integer_to_agtype(i)) : i \in (-MaxIndex)..MaxIndex}

HeldList == cur # SqlNull /\ AGT_ROOT_IS_ARRAY(cur) /\ ~AGT_ROOT_IS_SCALAR(cur)

\* keys of the kinds no container takes: a float, a numeric, a bool, a list
WrongKeys ==
    {AgtArg(agtype_from_cstring(str)) :
        str \in {<<"2", ".", "0">>, <<"2", ":", ":", "n", "u", "m", "e", "r", "i", "c">>,
                 <<"t", "r", "u", "e">>, <<"[", "0", "]">>}}

\* every index on a list, and one on anything else; the keys of the maps; the
\* keys of the wrong kinds; the two nulls; no key; two keys
KeyArgs ==
    LET zero == AgtArg(integer_to_agtype(0))
        a == AgtArg(string_to_agtype(<<"a">>))
        keys == (IF HeldList THEN IndexArgs ELSE {zero})
                    \cup {a, AgtArg(string_to_agtype(<<"b">>)),
                          AgtArg(agtype_from_cstring(<<"n", "u", "l", "l">>)), NullArg}
                    \cup WrongKeys
    IN  {<<>>, <<zero, zero>>, <<zero, a>>, <<a, zero>>, <<a, a>>} \cup {<<k>> : k \in keys}

\* the variadic array of the access operator: the held datum, then the keys
AccessOperator ==
    \E keys \in KeyArgs :
        /\ cur # SqlNull
        /\ Finish("agtype_access_operator", keys, agtype_access_operator(<<CurArg>> \o keys))

\* bounds below, inside and above a list, and no bound
SliceBounds ==
    {NullArg} \cup {AgtArg(integer_to_agtype(i)) : i \in {-MaxIndex, -1, 0, 1, MaxIndex}}

\* bounds that are no integers: the agtype Null, a float, a string, a list
OddBounds ==
    {AgtArg(agtype_from_cstring(str)) :
        str \in {<<"n", "u", "l", "l">>, <<"2", ".", "0">>, <<"\"", "a", "\"">>,
                 <<"[", "1", "]">>}}

\* every pair of integer bounds on a list, and each bound that is no integer
\* on either side of no bound, of an integer and of the agtype Null; on
\* anything else the call fails before it reads them, and one pair of each
\* kind is enough
SliceArgs ==
    LET plain == {NullArg, AgtArg(integer_to_agtype(1)),
                  AgtArg(agtype_from_cstring(<<"n", "u", "l", "l">>))}
    IN  IF HeldList
        THEN (SliceBounds \X SliceBounds) \cup (OddBounds \X plain) \cup (plain \X OddBounds)
        ELSE {<<AgtArg(integer_to_agtype(0)), NullArg>>, <<NullArg, NullArg>>}

AccessSlice ==
    \E bounds \in SliceArgs :
        Finish("agtype_access_slice", bounds,
               agtype_access_slice(CurArg, bounds[1], bounds[2]))

ItemArgs ==
    {NullArg, AgtArg(agtype_from_cstring(<<"n", "u", "l", "l">>)), AgtArg(integer_to_agtype(2)), AgtArg(float_to_agtype(Float8(20, 0))),
     AgtArg(agtype_from_cstring(<<"2", ":", ":", "n", "u", "m", "e", "r", "i", "c">>)),
     AgtArg(string_to_agtype(<<"a">>)),
     AgtArg(agtype_from_cstring(<<"{", "\"", "b", "\"", ":", " ", "2", ",", " ", "\"", "a", "\"", ":", " ", "1", "}">>)),
     AgtArg(agtype_from_cstring(<<"{", "\"", "a", "\"", ":", " ", "1", "}">>)),
     AgtArg(_agtype_build_edge(GraphidArg(1), GraphidArg(2), GraphidArg(3), TextArg(<<"e">>),
                               NullArg))}

InOperator ==
    \E item \in ItemArgs :
        Finish("agtype_in_operator", <<item>>, agtype_in_operator(CurArg, item))

\* the largest exponent of a float whose text the model reads as a numeric
MaxExponent == 0

\* a float scalar beyond the numerics of the model
BeyondNumeric(agt) ==
    /\ agt # SqlNull
    /\ AGT_ROOT_IS_SCALAR(agt)
    /\ agt.children[1].type = "AGTV_FLOAT"
    /\ agt.children[1].float_value.exp > MaxExponent

\* the typecast of the held datum
TypecastNumeric ==
    /\ ~BeyondNumeric(cur)
    /\ Finish("agtype_typecast_numeric", <<>>, agtype_typecast_numeric(CurArg))

Init ==
    /\ cur = SqlNull
    /\ src = SqlNull
    /\ text = <<>>
    /\ last = Call("none", <<>>, ReturnedNull)
    /\ tree = Unset
    /\ its = <<>>
    /\ lookups = <<>>
    /\ analyzed = Unset

Next ==
    \/ AgtypeIn
    \/ AgtypeOut
    \/ BuildList
    \/ BuildMap
    \/ BuildVertex
    \/ BuildEdge
    \/ AccessOperator
    \/ AccessSlice
    \/ InOperator
    \/ TypecastNumeric

Spec == Init /\ [][Next]_vars

(***************************************************************************)
(* Traversal.  Several cursors are open on one datum and each caller       *)
(* advances its own, in any order: the renderer (agtype_to_cstring_worker, *)
(* which never skips a nested container), the loop of agtype_in_operator   *)
(* (which opens the list without skipping and then skips), and             *)
(* agtype_extract_scalar on a scalar datum (which always skips).  A cursor *)
(* keeps the tokens it has yielded and the nesting level the renderer      *)
(* counts.                                                                 *)
(***************************************************************************)
\* a faulty variant: the level is never taken back
LevelCountsBegins(level, tok) ==
    IF tok \in {"WAGT_BEGIN_ARRAY", "WAGT_BEGIN_OBJECT"} THEN level + 1 ELSE level

\* level++ on a Begin token, level-- on an End token
LevelAfter(level, tok) ==
    CASE tok \in {"WAGT_BEGIN_ARRAY", "WAGT_BEGIN_OBJECT"} -> level + 1
      [] tok \in {"WAGT_END_ARRAY", "WAGT_END_OBJECT"} -> level - 1
      [] OTHER -> level

Cursor(user, c) ==
    [user |-> user, it |-> agtype_iterator_init(c), tokens |-> <<>>, level |-> 0]

CursorDone(cursor) == cursor.tokens # <<>> /\ Last(cursor.tokens).tok = "WAGT_DONE"

\* the skip_nested argument of the next call of a cursor
SkipNested(cursor) ==
    CASE cursor.user = "agtype_to_cstring_worker" -> FALSE
      [] cursor.user = "agtype_in_operator" -> cursor.tokens # <<>>
      [] cursor.user = "agtype_extract_scalar" -> TRUE

\* the cursor after one call of agtype_iterator_next on it
CursorNext(cursor) ==
    LET s == agtype_iterator_next(cursor.it, SkipNested(cursor))
    IN  [cursor EXCEPT !.it = s.it,
                       !.tokens = Append(@, Token(s.tok, s.val)),
                       !.level = LevelAfter(@, s.tok)]

\* a faulty variant: the position is shared by all the cursors
AdvanceShared(cursors, k, cursor) ==
    [j \in DOMAIN cursors |->
        IF j = k THEN cursor ELSE [cursors[j] EXCEPT !.it = cursor.it]]

\* agtype_iterator_next(&it, ...) moves the iterator of its caller
Advance(cursors, k, cursor) == [cursors EXCEPT ![k] = cursor]

\* the cursors opened on a datum: two of the renderer, one of IN, and one
\* of agtype_extract_scalar when the datum is a scalar
CursorsOn(c) ==
    <<Cursor("agtype_to_cstring_worker", c), Cursor("agtype_to_cstring_worker", c),
      Cursor("agtype_in_operator", c)>>
        \o (IF AGT_ROOT_IS_SCALAR(c) THEN <<Cursor("agtype_extract_scalar", c)>> ELSE <<>>)

\* the data traversed: lists and objects with and without nested
\* containers, a scalar, a Vertex
TraversedTexts ==
    {<<"[", "1", ",", "[", "2", "]", "]">>,
     <<"{", "\"", "a", "\"", ":", "[", "1", "]", ",", "\"", "b", "\"", ":", "2", "}">>,
     <<"{", "\"", "a", "\"", ":", "{", "\"", "b", "\"", ":", "1", "}", "}">>,
     <<"[", "]">>,
     <<"2">>}

Traversed ==
    {agtype_from_cstring(str).agt : str \in TraversedTexts}
        \cup {_agtype_build_vertex(GraphidArg(1), TextArg(<<"v">>), NullArg).agt}

IterInit ==
    /\ cur \in Traversed
    /\ src = cur
    /\ text = <<>>
    /\ last = Call("none", <<>>, ReturnedNull)
    /\ tree = Unset
    /\ its = CursorsOn(cur)
    /\ lookups = <<>>
    /\ analyzed = Unset

\* the k-th cursor is advanced by its user
NextOf(k, user) ==
    /\ k \in DOMAIN its
    /\ its[k].user = user
    /\ ~CursorDone(its[k])
    /\ its' = Advance(its, k, CursorNext(its[k]))
    /\ UNCHANGED <<cur, src, text, last, tree, lookups, analyzed>>

WorkerNext == \E k \in {1, 2} : NextOf(k, "agtype_to_cstring_worker")

InNext == NextOf(3, "agtype_in_operator")

ExtractNext == NextOf(4, "agtype_extract_scalar")

\* the keys looked up: one every object traversed holds, and one that one
\* object holds at its top and the other only in a nested object
LookupKeys == {AgtArg(string_to_agtype(<<k>>)) : k \in {"a", "b"}}

\* one lookup: its key, what it returned, and whether a traversal of the
\* datum had begun when it was made
Lookup(key, out, cursors) ==
    [key |-> key, status |-> out.status, agt |-> out.agt,
     begun |-> \E k \in DOMAIN cursors : cursors[k].tokens # <<>>]

\* agtype_access_operator with one key on the object held, at any moment of
\* the traversals; it reads the object and moves no cursor
MapAccessNext ==
    \E key \in LookupKeys :
        /\ AGT_ROOT_IS_OBJECT(cur)
        /\ Len(lookups) < MaxLookups
        /\ lookups' = Append(lookups, Lookup(key, agtype_access_operator(<<CurArg, key>>), its))
        /\ UNCHANGED <<cur, src, text, last, tree, its, analyzed>>

IterNext ==
    \/ WorkerNext
    \/ InNext
    \/ ExtractNext
    \/ MapAccessNext

\* every user calls next until it is given Done
IterSpec ==
    /\ IterInit
    /\ [][IterNext]_vars
    /\ \A k \in {1, 2} : WF_vars(NextOf(k, "agtype_to_cstring_worker"))
    /\ WF_vars(InNext)
    /\ WF_vars(ExtractNext)

(***************************************************************************)
(* Analysis.  post_parse_analyze walks the Query the parser built and      *)
(* converts each cypher() call of a FROM clause into a SELECT subquery in  *)
(* place.  A node is a record with its node tag; an ereport(ERROR) ends    *)
(* the walk where it is raised, with the conversions made until then kept  *)
(* in the tree.  The walkers of the host (query_tree_walker,               *)
(* range_table_walker, expression_tree_walker) are followed for the        *)
(* fields a Query has here: its target list and its range table.           *)
(***************************************************************************)
NullNode == [tag |-> "NULL"]

Const(consttype, constvalue, constisnull) ==
    [tag |-> "Const", consttype |-> consttype, constvalue |-> constvalue,
     constisnull |-> constisnull]

Var(vartype, vartypmod, varcollid) ==
    [tag |-> "Var", vartype |-> vartype, vartypmod |-> vartypmod, varcollid |-> varcollid]

\* funcid is the pg_proc row of the function: its name and its namespace
FuncExpr(nspname, proname, args) ==
    [tag |-> "FuncExpr", funcid |-> [pronamespace |-> nspname, proname |-> proname],
     args |-> args]

\* cols is the column definition list, each column its type, typmod and collation
RangeTblFunction(funcexpr, cols) ==
    [tag |-> "RangeTblFunction", funcexpr |-> funcexpr, funccolcount |-> Len(cols),
     funccoltypes |-> [i \in DOMAIN cols |-> cols[i].type],
     funccoltypmods |-> [i \in DOMAIN cols |-> cols[i].typmod],
     funccolcollations |-> [i \in DOMAIN cols |-> cols[i].collation]]

RangeTblEntry(rtekind, subquery, functions, funcordinality, values_lists) ==
    [tag |-> "RangeTblEntry", rtekind |-> rtekind, subquery |-> subquery,
     functions |-> functions, funcordinality |-> funcordinality,
     values_lists |-> values_lists]

Query(targetList, rtable) ==
    [tag |-> "Query", targetList |-> targetList, rtable |-> rtable]

exprType(expr) ==
    CASE expr.tag = "Var" -> expr.vartype
      [] expr.tag = "Const" -> expr.consttype
      [] OTHER -> "record"

exprTypmod(expr) == IF expr.tag = "Var" THEN expr.vartypmod ELSE -1

exprCollation(expr) == IF expr.tag = "Var" THEN expr.varcollid ELSE "none"

NoError == ""

\* what a walk leaves: the node as it is now and the error that ended the walk
Walked(node, error) == [node |-> node, error |-> error]

is_func_cypher(funcexpr) ==
    IF funcexpr.funcid.proname # "cypher"
    THEN FALSE
    ELSE funcexpr.funcid.pronamespace = "ag_catalog"

\* any first function of the entry is looked at, however many there are
FirstFuncIsCypher(rte) == is_func_cypher(rte.functions[1].funcexpr)

is_rte_cypher(rte) ==
    IF Len(rte.functions) # 1
    THEN FALSE
    ELSE is_func_cypher(rte.functions[1].funcexpr)

\* transformStmt of VALUES (str): one row of one column, which the host
\* resolves to text, read through a Var of the VALUES entry
generate_values_query_with_str(str) ==
    Query(<<Var("text", -1, "default")>>,
          <<RangeTblEntry("RTE_VALUES", NullNode, <<>>, FALSE,
                          <<Const("unknown", str, FALSE)>>)>>)

parse_and_analyze_cypher(query_str) == generate_values_query_with_str(query_str)

check_result_type(query, rtfunc) ==
    IF Len(query.targetList) # rtfunc.funccolcount
    THEN "return row and column definition list do not match"
    ELSE IF \E i \in DOMAIN query.targetList :
                \/ exprType(query.targetList[i]) # rtfunc.funccoltypes[i]
                \/ exprTypmod(query.targetList[i]) # rtfunc.funccoltypmods[i]
                \/ exprCollation(query.targetList[i]) # rtfunc.funccolcollations[i]
         THEN "return row and column definition list do not match"
         ELSE NoError

convert_cypher_to_subquery(rte) ==
    LET rtfunc == rte.functions[1]
        funcexpr == rtfunc.funcexpr
        arg == funcexpr.args[1]
    IN  IF rte.funcordinality
        THEN Walked(rte, "WITH ORDINALITY is not supported")
        ELSE IF arg.tag # "Const" \/ arg.constisnull
        THEN Walked(rte, "a string constant is expected")
        ELSE LET query == parse_and_analyze_cypher(arg.constvalue)
                 mismatch == check_result_type(query, rtfunc)
             IN  IF mismatch # NoError
                 THEN Walked(rte, mismatch)
                 ELSE Walked([rte EXCEPT !.rtekind = "RTE_SUBQUERY",
                                         !.subquery = query], NoError)

RECURSIVE convert_cypher_walker(_)
RECURSIVE expression_tree_walker(_, _)
RECURSIVE range_table_walker(_, _)

\* the walker on the members of a list from the i-th on, until one raises
expression_tree_walker(list, i) ==
    IF i > Len(list)
    THEN NoError
    ELSE LET w == convert_cypher_walker(list[i])
         IN  IF w.error # NoError THEN w.error ELSE expression_tree_walker(list, i + 1)

\* QTW_EXAMINE_RTES: the walker sees the entry first, and the entry's kind is
\* read after it; QTW_IGNORE_RT_SUBQUERIES: a subquery entry is not entered
range_table_walker(rtable, i) ==
    IF i > Len(rtable)
    THEN Walked(rtable, NoError)
    ELSE LET w == convert_cypher_walker(rtable[i])
             rte == w.node
             rt == [rtable EXCEPT ![i] = rte]
         IN  IF w.error # NoError
             THEN Walked(rt, w.error)
             ELSE LET below ==
                          CASE rte.rtekind = "RTE_FUNCTION" ->
                                   expression_tree_walker(rte.functions, 1)
                            [] rte.rtekind = "RTE_VALUES" ->
                                   expression_tree_walker(rte.values_lists, 1)
                            [] OTHER -> NoError
                  IN  IF below # NoError
                      THEN Walked(rt, below)
                      ELSE range_table_walker(rt, i + 1)

query_tree_walker(query) ==
    LET raised == expression_tree_walker(query.targetList, 1)
    IN  IF raised # NoError
        THEN Walked(query, raised)
        ELSE LET r == range_table_walker(query.rtable, 1)
             IN  Walked([query EXCEPT !.rtable = r.node], r.error)

convert_cypher_walker(node) ==
    CASE node.tag = "NULL" -> Walked(node, NoError)
      [] node.tag = "RangeTblEntry" ->
             (CASE node.rtekind = "RTE_SUBQUERY" ->
                       LET w == convert_cypher_walker(node.subquery)
                       IN  Walked([node EXCEPT !.subquery = w.node], w.error)
                [] node.rtekind = "RTE_FUNCTION" ->
                       IF is_rte_cypher(node)
                       THEN convert_cypher_to_subquery(node)
                       ELSE Walked(node, NoError)
                [] OTHER -> Walked(node, NoError))
      [] node.tag = "RangeTblFunction" ->
             IF is_func_cypher(node.funcexpr)
             THEN Walked(node, "cypher(...) in ROWS FROM is not supported")
             ELSE Walked(node, expression_tree_walker(node.funcexpr.args, 1))
      [] node.tag = "FuncExpr" ->
             IF is_func_cypher(node)
             THEN Walked(node, "cypher(...) in expressions is not supported")
             ELSE Walked(node, expression_tree_walker(node.args, 1))
      [] node.tag = "Query" -> query_tree_walker(node)
      [] OTHER -> Walked(node, NoError)

post_parse_analyze(query) == convert_cypher_walker(query)

\* what the hook leaves of one statement
Analysis(given, w) == [given |-> given, query |-> w.node, error |-> w.error]

\* the statements analyzed
StringConst == Const("cstring", "MATCH (n) RETURN n", FALSE)

CypherCall(arg) == FuncExpr("ag_catalog", "cypher", <<arg>>)

TextColumn == [type |-> "text", typmod |-> -1, collation |-> "default"]

\* column definition lists: (a text), and lists that differ from the row
\* returned in the type, the count, the typmod and the collation
ColumnDefinitionLists ==
    {<<TextColumn>>,
     <<[type |-> "int4", typmod |-> -1, collation |-> "none"]>>,
     <<TextColumn, TextColumn>>,
     <<[type |-> "text", typmod |-> 9, collation |-> "default"]>>,
     <<[type |-> "text", typmod |-> -1, collation |-> "C"]>>}

\* expressions that call cypher(): alone, and as the argument of a function
CypherExpressions ==
    {CypherCall(StringConst), FuncExpr("pg_catalog", "lower", <<CypherCall(StringConst)>>)}

\* arguments of cypher() that are no string constant
OddArguments ==
    {Const("cstring", "", TRUE), Var("text", -1, "default"),
     FuncExpr("pg_catalog", "lower", <<StringConst>>), CypherCall(StringConst)}

\* functions of another name or of another schema
OtherFunctions ==
    {FuncExpr("public", "cypher", <<StringConst>>),
     FuncExpr("ag_catalog", "create_graph", <<StringConst>>)}

FromFunctions ==
    {RangeTblFunction(CypherCall(StringConst), cols) : cols \in ColumnDefinitionLists}
        \cup {RangeTblFunction(CypherCall(arg), <<TextColumn>>) : arg \in OddArguments}
        \cup {RangeTblFunction(f, <<TextColumn>>) :
                  f \in OtherFunctions
                      \cup {FuncExpr("pg_catalog", "lower", <<CypherCall(StringConst)>>)}}

\* ROWS FROM with two functions
RowsFrom ==
    LET c == RangeTblFunction(CypherCall(StringConst), <<TextColumn>>)
        o == RangeTblFunction(FuncExpr("public", "cypher", <<StringConst>>), <<TextColumn>>)
    IN  {<<c, o>>, <<o, c>>, <<o, o>>, <<c, c>>}

FunctionEntry(functions, funcordinality) ==
    RangeTblEntry("RTE_FUNCTION", NullNode, functions, funcordinality, <<>>)

LeafEntries ==
    {FunctionEntry(<<f>>, o) : f \in FromFunctions, o \in BOOLEAN}
        \cup {FunctionEntry(fs, FALSE) : fs \in RowsFrom}
        \cup {RangeTblEntry("RTE_RELATION", NullNode, <<>>, FALSE, <<>>)}
        \cup {RangeTblEntry("RTE_VALUES", NullNode, <<>>, FALSE, <<e>>) :
                  e \in {StringConst, CypherCall(StringConst)}}

\* subqueries in FROM: one entry each, with and without cypher() in the target list
SubqueryEntries ==
    {RangeTblEntry("RTE_SUBQUERY", Query(tl, <<FunctionEntry(<<f>>, o)>>), <<>>, FALSE, <<>>) :
         tl \in {<<Var("text", -1, "default")>>, <<CypherCall(StringConst)>>},
         f \in {RangeTblFunction(CypherCall(StringConst), <<TextColumn>>),
                RangeTblFunction(CypherCall(StringConst), <<TextColumn, TextColumn>>),
                RangeTblFunction(FuncExpr("public", "cypher", <<StringConst>>), <<TextColumn>>)},
         o \in BOOLEAN}

TargetLists ==
    {<<Var("text", -1, "default")>>} \cup {<<Var("text", -1, "default"), e>> : e \in CypherExpressions}

\* the entries put together in the FROM clause of one statement
PairedEntries ==
    {FunctionEntry(<<f>>, o) :
         f \in {RangeTblFunction(CypherCall(StringConst), <<TextColumn>>),
                RangeTblFunction(CypherCall(StringConst), <<TextColumn, TextColumn>>),
                RangeTblFunction(CypherCall(Const("cstring", "", TRUE)), <<TextColumn>>),
                RangeTblFunction(FuncExpr("public", "cypher", <<StringConst>>), <<TextColumn>>)},
         o \in BOOLEAN}
        \cup {FunctionEntry(fs, FALSE) : fs \in RowsFrom}
        \cup {RangeTblEntry("RTE_RELATION", NullNode, <<>>, FALSE, <<>>)}
        \cup {e \in SubqueryEntries : ~e.subquery.rtable[1].funcordinality}

Queries ==
    {Query(tl, <<e>>) : tl \in TargetLists, e \in LeafEntries \cup SubqueryEntries}
        \cup {Query(<<Var("text", -1, "default")>>, <<e1, e2>>) :
                  e1 \in PairedEntries, e2 \in PairedEntries}

\* the hook on the Query of one statement
PostParseAnalyze ==
    \E query \in Queries :
        /\ analyzed' = Analysis(query, post_parse_analyze(query))
        /\ UNCHANGED <<cur, src, text, last, tree, its, lookups>>

AnalyzeNext == PostParseAnalyze

AnalyzeSpec == Init /\ [][AnalyzeNext]_vars

(***************************************************************************)
(* What the properties read off a state: src is the datum the last call    *)
(* was applied to, cur the one it returned, last.args its other arguments. *)
(***************************************************************************)
IsList(agt) == agt # SqlNull /\ AGT_ROOT_IS_ARRAY(agt) /\ ~AGT_ROOT_IS_SCALAR(agt)

IsScalarDatum(agt) == agt # SqlNull /\ AGT_ROOT_IS_SCALAR(agt)

IsAgtypeArg(a) == ~a.isnull /\ a.val.typoid = "AGTYPEOID"

\* the scalar of a scalar argument
ScalarOf(a) == a.val.agt.children[1]

IsIntegerArg(a) ==
    IsAgtypeArg(a) /\ AGT_ROOT_IS_SCALAR(a.val.agt) /\ ScalarOf(a).type = "AGTV_INTEGER"

IsStringArg(a) ==
    IsAgtypeArg(a) /\ AGT_ROOT_IS_SCALAR(a.val.agt) /\ ScalarOf(a).type = "AGTV_STRING"

\* the element at position i (from 0) of a list, as a datum of its own
ElementAt(list, i) == agtype_value_to_agtype(fill_agtype_value(list.children[i + 1]))

IndexedOnce ==
    /\ last.fn = "agtype_access_operator"
    /\ Len(last.args) = 1
    /\ IsIntegerArg(last.args[1])
    /\ IsList(src)

\* C1: indexing a list of length n with the integer i never fails; it returns
\* element i for 0 <= i < n, element n + i for -n <= i <= -1, and SQL NULL
\* (not found) for i >= n or i < -n.
ArrayIndexAccess ==
    IndexedOnce =>
        LET i == ScalarOf(last.args[1]).int_value
            n == AGT_ROOT_COUNT(src)
        IN  /\ last.status # "error"
            /\ (0 <= i /\ i < n) => (last.status = "ok" /\ cur = ElementAt(src, i))
            /\ (-n <= i /\ i <= -1) => (last.status = "ok" /\ cur = ElementAt(src, n + i))
            /\ (i >= n \/ i < -n) => (last.status = "null" /\ cur = SqlNull)

\* index -1 has returned the last of two elements
LastElementReturned ==
    /\ IndexedOnce
    /\ ScalarOf(last.args[1]).int_value = -1
    /\ AGT_ROOT_COUNT(src) = 2
    /\ last.status = "ok"
    /\ cur = ElementAt(src, 1)
    /\ cur # ElementAt(src, 0)

SlicedByIntegers ==
    /\ last.fn = "agtype_access_slice"
    /\ IsList(src)
    /\ IsIntegerArg(last.args[1])
    /\ IsIntegerArg(last.args[2])

\* a bound with n added when negative, then clamped into [0, n]
Clamped(b, n) ==
    LET a == IF b < 0 THEN n + b ELSE b
    IN  IF a < 0 THEN 0 ELSE IF a > n THEN n ELSE a

\* C2: a slice of a list of length n by integer bounds (lo, hi) never fails;
\* with lo' and hi' the bounds after n is added to a negative one and each is
\* clamped into [0, n], the result is the list of the elements at positions
\* lo' .. hi' - 1 in their order, of length max(0, hi' - lo'); bounds at or
\* beyond both ends give the whole list, and lo' >= hi' gives the empty list.
SliceClamping ==
    SlicedByIntegers =>
        LET n == AGT_ROOT_COUNT(src)
            lo == Clamped(ScalarOf(last.args[1]).int_value, n)
            hi == Clamped(ScalarOf(last.args[2]).int_value, n)
        IN  /\ last.status = "ok"
            /\ IsList(cur)
            /\ AGT_ROOT_COUNT(cur) = Max(0, hi - lo)
            /\ \A k \in 1..AGT_ROOT_COUNT(cur) : cur.children[k] = src.children[lo + k]
            /\ (lo = 0 /\ hi = n) => cur = src

\* bounds beyond both ends have returned the whole of a two-element list, and
\* the bounds (-1, MaxIndex) its last element alone
WholeListSliced ==
    /\ SlicedByIntegers
    /\ AGT_ROOT_COUNT(src) = 2
    /\ \/ /\ ScalarOf(last.args[1]).int_value = -MaxIndex
          /\ ScalarOf(last.args[2]).int_value = MaxIndex
          /\ cur = src
       \/ /\ ScalarOf(last.args[1]).int_value = -1
          /\ ScalarOf(last.args[2]).int_value = MaxIndex
          /\ AGT_ROOT_COUNT(cur) = 1
          /\ cur.children[1] = src.children[2]

(***************************************************************************)
(* The direct traversal of a value tree: the tokens a walk of the tree in  *)
(* written order gives, without encoding it first.  A Vertex or an Edge is *)
(* one scalar token; what the tree holds as an encoded slice is read from  *)
(* the slice.                                                              *)
(***************************************************************************)
RECURSIVE Stored(_)
\* a scalar as a token carries it: the containers inside a Vertex or an Edge
\* are encoded slices
Stored(v) ==
    LET slot(x) == IF x.type \in {"AGTV_ARRAY", "AGTV_OBJECT"}
                   THEN AgtBinary(convert_agtype_value(x))
                   ELSE Stored(x)
    IN  IF v.type \in {"AGTV_VERTEX", "AGTV_EDGE"}
        THEN [type |-> v.type,
              pairs |-> [i \in 1..Len(v.pairs) |->
                            Pair(v.pairs[i].key, slot(v.pairs[i].value))]]
        ELSE v

RECURSIVE ValueTokens(_)
RECURSIVE ElemTokens(_, _)
RECURSIVE PairTokens(_, _)
ElemTokens(elems, i) ==
    IF i > Len(elems) THEN <<>>
    ELSE (IF IS_A_AGTYPE_SCALAR(elems[i]) THEN <<Token("WAGT_ELEM", Stored(elems[i]))>>
          ELSE ValueTokens(elems[i]))
             \o ElemTokens(elems, i + 1)

PairTokens(pairs, i) ==
    IF i > Len(pairs) THEN <<>>
    ELSE <<Token("WAGT_KEY", pairs[i].key)>>
             \o (IF IS_A_AGTYPE_SCALAR(pairs[i].value)
                 THEN <<Token("WAGT_VALUE", Stored(pairs[i].value))>>
                 ELSE ValueTokens(pairs[i].value))
             \o PairTokens(pairs, i + 1)

ValueTokens(v) ==
    CASE v.type = "AGTV_ARRAY" ->
            <<Token("WAGT_BEGIN_ARRAY",
                    [type |-> "AGTV_ARRAY", raw_scalar |-> v.raw_scalar,
                     num_elems |-> Len(v.elems)])>>
                \o ElemTokens(v.elems, 1) \o <<Token("WAGT_END_ARRAY", AgtNull)>>
      [] v.type = "AGTV_OBJECT" ->
            <<Token("WAGT_BEGIN_OBJECT", [type |-> "AGTV_OBJECT", num_pairs |-> Len(v.pairs)])>>
                \o PairTokens(v.pairs, 1) \o <<Token("WAGT_END_OBJECT", AgtNull)>>
      [] v.type = "AGTV_BINARY" -> Front(ContainerTokens(v.data))

\* a scalar at the top is traversed in its raw-scalar array
DirectTokens(v) ==
    ValueTokens(IF IS_A_AGTYPE_SCALAR(v) THEN AgtArray(TRUE, <<v>>) ELSE v)
        \o <<Token("WAGT_DONE", AgtNull)>>

\* build_list was given one non-scalar agtype datum, which it replays
ReplayedOnce ==
    /\ last.fn = "agtype_build_list"
    /\ last.status = "ok"
    /\ Len(last.args) = 1
    /\ IsAgtypeArg(last.args[1])
    /\ ~AGT_ROOT_IS_SCALAR(last.args[1].val.agt)

\* C3: the cursor over the container encoded from a value tree V yields the
\* tokens of the direct traversal of V; and the tokens of a non-scalar
\* container replayed into an open array by datum_to_agtype are, once the
\* result is encoded, the tokens of that container again, in the same order,
\* between the Begin and End of the array.
EncodeRoundTrip ==
    /\ (tree # Unset /\ last.status = "ok") => ContainerTokens(cur) = DirectTokens(tree)
    /\ ReplayedOnce =>
           ContainerTokens(cur)
               = <<Token("WAGT_BEGIN_ARRAY",
                         [type |-> "AGTV_ARRAY", raw_scalar |-> FALSE, num_elems |-> 1])>>
                     \o Front(ContainerTokens(last.args[1].val.agt))
                     \o <<Token("WAGT_END_ARRAY", AgtNull), Token("WAGT_DONE", AgtNull)>>

\* an object whose keys were written b, a has been replayed into a list, and
\* the tree of that list has been encoded
ObjectReplayed ==
    /\ ReplayedOnce
    /\ tree # Unset
    /\ AGT_ROOT_IS_OBJECT(src)
    /\ AGT_ROOT_COUNT(src) = 2
    /\ src.children[1] = AgtString(<<"b">>)
    /\ src.children[3] = AgtString(<<"a">>)
    /\ Len(ContainerTokens(cur)) = 9

(***************************************************************************)
(* Text in, text out.                                                      *)
(***************************************************************************)
\* no Vertex and no Edge anywhere in the datum
RECURSIVE Untagged(_)
Untagged(c) ==
    \A i \in 1..Len(c.children) :
        /\ c.children[i].type \notin {"AGTV_VERTEX", "AGTV_EDGE"}
        /\ c.children[i].type = "AGT_CONTAINER" => Untagged(c.children[i].data)

\* agtype_in was given the text agtype_out wrote for the datum held
ParsedItsOwnText ==
    /\ last.fn = "agtype_in"
    /\ src # SqlNull
    /\ Untagged(src)
    /\ last.args[1].val.string = agtype_to_cstring(src)

SearchedList ==
    /\ last.fn = "agtype_in_operator"
    /\ last.status = "ok"
    /\ IsList(src)
    /\ IsAgtypeArg(last.args[1])

TrueDatum == agtype_value_to_agtype(AgtBool(TRUE))

FalseDatum == agtype_value_to_agtype(AgtBool(FALSE))

\* some element of the list compares equal to the item
SomeElementEqual(list, item) ==
    \E i \in 1..AGT_ROOT_COUNT(list) :
        CompareValues(fill_agtype_value(list.children[i]), Comparand(item)) = 0

\* C5: agtype_in_operator(list, item) returns true exactly when some element
\* of the list is equal to the item under the ordering, which compares
\* numbers by value across Integer, Float and ArbitraryPrecision.
InByOrderingEquality ==
    SearchedList =>
        /\ cur \in {TrueDatum, FalseDatum}
        /\ cur = TrueDatum <=> SomeElementEqual(src, last.args[1].val.agt)

(***************************************************************************)
(* The ordering.                                                           *)
(***************************************************************************)
\* the agtype datums of a state: the one held, the one the last call was
\* applied to, and the agtype arguments of that call
HeldDatums ==
    {c \in {cur, src} : c # SqlNull}
        \cup {last.args[i].val.agt : i \in {j \in 1..Len(last.args) : IsAgtypeArg(last.args[j])}}

\* the values the comparator is asked about: each datum, and each element of
\* each list
ComparedValues ==
    {Comparand(c) : c \in HeldDatums}
        \cup UNION {{fill_agtype_value(c.children[i]) : i \in 1..AGT_ROOT_COUNT(c)} :
                       c \in {h \in HeldDatums : IsList(h)}}

KindOrder == <<"Null", "Bool", "Number", "String", "Array", "Object", "Vertex", "Edge">>

KindOf(v) ==
    CASE v.type = "AGTV_NULL" -> "Null"
      [] v.type = "AGTV_BOOL" -> "Bool"
      [] v.type \in {"AGTV_INTEGER", "AGTV_FLOAT", "AGTV_NUMERIC"} -> "Number"
      [] v.type = "AGTV_STRING" -> "String"
      [] v.type = "AGTV_BINARY" -> IF v.data.is_array THEN "Array" ELSE "Object"
      [] v.type = "AGTV_VERTEX" -> "Vertex"
      [] v.type = "AGTV_EDGE" -> "Edge"

\* the first position at which two sequences of elements differ, 0 when the
\* shorter is a prefix of the longer
FirstDifference(ea, eb) ==
    LET m == IF Len(ea) < Len(eb) THEN Len(ea) ELSE Len(eb)
        d == {k \in 1..m : CompareValues(ea[k], eb[k]) # 0}
    IN  IF d = {} THEN 0 ELSE CHOOSE k \in d : \A j \in d : k <= j

PairSet(v) == {ContainerPairs(v.data)[i] : i \in 1..v.data.count}

\* IN was asked for an item that is no number
SearchedForNoNumber ==
    /\ SearchedList
    /\ KindOf(Comparand(last.args[1].val.agt)) # "Number"

\* C6: the comparator is a total order over all values: a result is -1, 0 or
\* 1, a value equals itself, comparing b with a negates comparing a with b,
\* and the order is transitive; values of different kinds order as Null <
\* Bool < Number < String < Array < Object < Vertex < Edge; two arrays order
\* as their first differing elements do, and by length when one is a prefix
\* of the other; two objects holding the same key/value pairs are equal
\* whatever the order the pairs were inserted in; and IN, asked for an item
\* that is no number, answers by this equality.
ComparatorTotalOrder ==
    /\ \A a, b \in ComparedValues :
          /\ CompareValues(a, b) \in {-1, 0, 1}
          /\ CompareValues(a, b) = 0 - CompareValues(b, a)
          /\ a = b => CompareValues(a, b) = 0
          /\ KindOf(a) # KindOf(b) =>
                 CompareValues(a, b) = Cmp(IndexOf(KindOrder, KindOf(a)),
                                           IndexOf(KindOrder, KindOf(b)))
          /\ (KindOf(a) = "Array" /\ KindOf(b) = "Array") =>
                 LET ea == ContainerElems(a.data)
                     eb == ContainerElems(b.data)
                     k == FirstDifference(ea, eb)
                 IN  CompareValues(a, b) = IF k = 0 THEN Cmp(Len(ea), Len(eb))
                                           ELSE CompareValues(ea[k], eb[k])
          /\ (KindOf(a) = "Object" /\ KindOf(b) = "Object"
                  /\ a.data.count = b.data.count /\ PairSet(a) = PairSet(b)) =>
                 CompareValues(a, b) = 0
    /\ \A a, b, c \in ComparedValues :
          /\ (CompareValues(a, b) < 0 /\ CompareValues(b, c) <= 0) => CompareValues(a, c) < 0
          /\ (CompareValues(a, b) <= 0 /\ CompareValues(b, c) < 0) => CompareValues(a, c) < 0
          /\ (CompareValues(a, b) = 0 /\ CompareValues(b, c) = 0) => CompareValues(a, c) = 0
    /\ SearchedForNoNumber =>
          (cur = TrueDatum <=> SomeElementEqual(src, last.args[1].val.agt))

\* an object written b, a has been found in a list that holds it written a, b
ReorderedObjectFound ==
    /\ SearchedForNoNumber
    /\ AGT_ROOT_COUNT(src) = 1
    /\ src.children[1].type = "AGT_CONTAINER"
    /\ AGT_ROOT_IS_OBJECT(src.children[1].data)
    /\ AGT_ROOT_COUNT(src.children[1].data) = 2
    /\ AGT_ROOT_IS_OBJECT(last.args[1].val.agt)
    /\ AGT_ROOT_COUNT(last.args[1].val.agt) = 2
    /\ src.children[1].data.children[1] = AgtString(<<"a">>)
    /\ src.children[1].data.children[3] = AgtString(<<"b">>)
    /\ last.args[1].val.agt.children[1] = AgtString(<<"b">>)
    /\ last.args[1].val.agt.children[3] = AgtString(<<"a">>)
    /\ cur = TrueDatum

(***************************************************************************)
(* The shape of what a construction returns.                               *)
(***************************************************************************)
\* no container inside the datum is marked as the wrapper of a scalar
RECURSIVE NoNestedWrapper(_)
NoNestedWrapper(c) ==
    \A i \in 1..Len(c.children) :
        c.children[i].type \in {"AGT_CONTAINER", "AGTV_VERTEX", "AGTV_EDGE"} =>
            (~c.children[i].data.is_scalar /\ NoNestedWrapper(c.children[i].data))

\* no array below the top of the value tree is raw_scalar
RECURSIVE NoRawScalarBelow(_)
NoRawScalarBelow(v) ==
    LET plain(x) ==
            /\ x.type = "AGTV_ARRAY" => ~x.raw_scalar
            /\ x.type = "AGTV_BINARY" => (~x.data.is_scalar /\ NoNestedWrapper(x.data))
            /\ NoRawScalarBelow(x)
    IN  CASE v.type = "AGTV_ARRAY" -> \A i \in 1..Len(v.elems) : plain(v.elems[i])
          [] HasPairs(v) -> \A i \in 1..Len(v.pairs) : plain(v.pairs[i].value)
          [] OTHER -> TRUE

\* C7: a completed construction returns an Object or an Array at the top (a
\* tree tagged Vertex or Edge is returned in the wrapper of a scalar); an
\* array marked raw_scalar holds exactly one element, which is a scalar; and
\* no such array is nested in another container: a scalar agtype argument is
\* appended to an open frame without its wrapper.
TopLevelContainer ==
    /\ (tree # Unset /\ last.status = "ok") =>
          /\ \/ tree.type \in {"AGTV_ARRAY", "AGTV_OBJECT"}
             \/ /\ tree.type \in {"AGTV_VERTEX", "AGTV_EDGE"}
                /\ IsScalarDatum(cur)
                /\ cur.children[1].type = tree.type
          /\ (tree.type = "AGTV_ARRAY" /\ tree.raw_scalar) =>
                 (Len(tree.elems) = 1 /\ IS_A_AGTYPE_SCALAR(tree.elems[1]))
          /\ NoRawScalarBelow(tree)
    /\ cur # SqlNull =>
          /\ cur.is_scalar =>
                 /\ cur.is_array
                 /\ cur.count = 1
                 /\ Len(cur.children) = 1
                 /\ cur.children[1].type # "AGT_CONTAINER"
          /\ NoNestedWrapper(cur)

\* build_list was given one scalar datum and returned a list of the scalar
ScalarListed ==
    /\ last.fn = "agtype_build_list"
    /\ last.status = "ok"
    /\ Len(last.args) = 1
    /\ IsAgtypeArg(last.args[1])
    /\ last.args[1].val.agt = src
    /\ IsScalarDatum(src)
    /\ src.count = 1
    /\ IsList(cur)
    /\ cur.children = src.children

(***************************************************************************)
(* Vertices and edges.                                                     *)
(***************************************************************************)
IsTagged(agt) ==
    IsScalarDatum(agt) /\ agt.children[1].type \in {"AGTV_VERTEX", "AGTV_EDGE"}

\* the text that follows the object of a tagged entry
WrittenSuffix(e) ==
    IF e.type = "AGTV_VERTEX" THEN <<":", ":", "v", "e", "r", "t", "e", "x">>
    ELSE <<":", ":", "e", "d", "g", "e">>

\* the object of a tagged entry, written without the tag
UntaggedText(e) == agtype_to_cstring(e.data)

\* C8: the text of a Vertex is the text of its object written untagged,
\* followed by ::vertex, and the text of an Edge that of its object followed
\* by ::edge, at the top and as the element of a list; the indenting output
\* of a Vertex or an Edge at the top is the same text.
TaggedRendering ==
    /\ (last.fn \in {"agtype_out", "agtype_to_cstring_indent"} /\ IsTagged(src)) =>
          text = UntaggedText(src.children[1]) \o WrittenSuffix(src.children[1])
    /\ (last.fn = "agtype_out" /\ IsList(src) /\ AGT_ROOT_COUNT(src) = 1
            /\ src.children[1].type \in {"AGTV_VERTEX", "AGTV_EDGE"}) =>
          text = <<"[">> \o UntaggedText(src.children[1]) \o WrittenSuffix(src.children[1])
                     \o <<"]">>

\* an edge with two properties has been written
EdgeWritten ==
    /\ last.fn = "agtype_out"
    /\ IsTagged(src)
    /\ src.children[1].type = "AGTV_EDGE"
    /\ Last(src.children[1].data.children).data.count = 2
    /\ Len(text) > Len(UntaggedText(src.children[1]))

\* the keys of an object, in the order it stores them
KeysOf(c) == [i \in 1..c.count |-> c.children[2 * i - 1].string]

VertexKeys == <<<<"i", "d">>, <<"l", "a", "b", "e", "l">>,
                <<"p", "r", "o", "p", "e", "r", "t", "i", "e", "s">>>>

EdgeKeys == <<<<"i", "d">>, <<"s", "t", "a", "r", "t", "_", "i", "d">>,
              <<"e", "n", "d", "_", "i", "d">>, <<"l", "a", "b", "e", "l">>,
              <<"p", "r", "o", "p", "e", "r", "t", "i", "e", "s">>>>

\* a builder returned the object o under the tag: the keys, an integer under
\* each key that holds an id, the label, and the properties given or, for
\* NULL, an empty object
BuiltAs(tag, keys) ==
    LET o == cur.children[1].data
        n == Len(keys)
        properties == o.children[2 * n]
    IN  /\ IsScalarDatum(cur)
        /\ cur.count = 1
        /\ cur.children[1].type = tag
        /\ tree.type = tag
        /\ ~o.is_array
        /\ o.count = n
        /\ KeysOf(o) = keys
        /\ \A i \in 1..(n - 2) :
              o.children[2 * i] = AgtInteger(last.args[i].val.int_value)
        /\ o.children[2 * n - 2] = AgtString(last.args[n - 1].val.string)
        /\ properties.type = "AGT_CONTAINER"
        /\ ~properties.data.is_array
        /\ IF last.args[n].isnull THEN properties.data.count = 0
           ELSE properties.data = last.args[n].val.agt

\* an argument the builders refuse: a NULL before the last, or properties
\* that are no object
Refused(args) ==
    \/ \E i \in 1..(Len(args) - 1) : args[i].isnull
    \/ /\ ~Last(args).isnull
       /\ ~AGT_ROOT_IS_OBJECT(Last(args).val.agt)

\* C9: _agtype_build_vertex returns an Object tagged Vertex with exactly the
\* keys id, label, properties in that order, and _agtype_build_edge an Object
\* tagged Edge with exactly the keys id, start_id, end_id, label, properties
\* in that order; properties is an Object, empty when the argument is NULL; a
\* NULL id, start, end or label, or properties that are no object, is an
\* error, and nothing is returned.
BuilderShape ==
    /\ last.fn = "_agtype_build_vertex" =>
          /\ last.status = IF Refused(last.args) THEN "error" ELSE "ok"
          /\ last.status = "ok" => BuiltAs("AGTV_VERTEX", VertexKeys)
          /\ last.status = "error" => (cur = src /\ tree = Unset)
    /\ last.fn = "_agtype_build_edge" =>
          /\ last.status = IF Refused(last.args) THEN "error" ELSE "ok"
          /\ last.status = "ok" => BuiltAs("AGTV_EDGE", EdgeKeys)
          /\ last.status = "error" => (cur = src /\ tree = Unset)

\* an edge has been built over an object of two properties
EdgeBuilt ==
    /\ last.fn = "_agtype_build_edge"
    /\ last.status = "ok"
    /\ src # SqlNull
    /\ AGT_ROOT_IS_OBJECT(src)
    /\ AGT_ROOT_COUNT(src) = 2
    /\ Last(cur.children[1].data.children).data = src

\* the access operator was given one string key on a Vertex or an Edge
PropertyAccessed ==
    /\ last.fn = "agtype_access_operator"
    /\ Len(last.args) = 1
    /\ IsStringArg(last.args[1])
    /\ IsTagged(src)

\* the positions, among the pairs of an object, of the key named properties
PropertiesAt(o) ==
    {i \in 1..o.count :
        o.children[2 * i - 1]
            = AgtString(<<"p", "r", "o", "p", "e", "r", "t", "i", "e", "s">>)}

\* C10: the access operator with a key k on a Vertex or an Edge looks k up in
\* the object stored under the key properties: it returns the value of k
\* when the properties hold k and NULL when they do not; and in every Vertex
\* the pair named properties is pair 2 (from 0) and no other, in every Edge
\* pair 4 and no other.
PropertyAccess ==
    /\ PropertyAccessed =>
          LET o == src.children[1].data
              p == o.children[2 * (CHOOSE i \in PropertiesAt(o) : TRUE)].data
              k == ScalarOf(last.args[1])
              at == {j \in 1..p.count : p.children[2 * j - 1] = k}
          IN  /\ PropertiesAt(o) # {}
              /\ IF at = {} THEN last.status = "null" /\ cur = SqlNull
                 ELSE /\ last.status = "ok"
                      /\ \E j \in at :
                            cur = agtype_value_to_agtype(fill_agtype_value(p.children[2 * j]))
    /\ (cur # SqlNull /\ IsTagged(cur)) =>
          PropertiesAt(cur.children[1].data)
              = {IF cur.children[1].type = "AGTV_VERTEX" THEN 3 ELSE 5}

\* the property b of an edge has been returned
EdgePropertyReturned ==
    /\ PropertyAccessed
    /\ src.children[1].type = "AGTV_EDGE"
    /\ ScalarOf(last.args[1]) = AgtString(<<"b">>)
    /\ last.status = "ok"
    /\ cur = agtype_value_to_agtype(AgtInteger(2))

(***************************************************************************)
(* The text of a Float.                                                    *)
(***************************************************************************)
\* agtype_out wrote a Float that stands alone
FloatWritten ==
    /\ last.fn = "agtype_out"
    /\ IsScalarDatum(src)
    /\ src.children[1].type = "AGTV_FLOAT"

\* C11: the text agtype_out writes for a Float holds a decimal point,
\* whatever float8out gave for it: digits, an exponent form, or NaN.
FloatHasDecimalPoint == FloatWritten => \E i \in 1..Len(text) : text[i] = "."

(***************************************************************************)
(* Annotations.                                                            *)
(***************************************************************************)
\* where the :: of a text starts, 0 when it has none
AnnotationAt(str) ==
    LET at == {i \in 1..(Len(str) - 1) : str[i] = ":" /\ str[i + 1] = ":"}
    IN  IF at = {} THEN 0 ELSE CHOOSE i \in at : \A j \in at : i <= j

\* agtype_in was given one scalar literal with an annotation
AnnotatedLiteralRead ==
    /\ last.fn = "agtype_in"
    /\ AnnotationAt(last.args[1].val.string) > 1
    /\ last.args[1].val.string[1] \notin {"[", "{"}

AnnotationRead ==
    LET str == last.args[1].val.string
    IN  SubSeq(str, AnnotationAt(str) + 2, Len(str))

AnnotationNames ==
    <<<<"n", "u", "m", "e", "r", "i", "c">>, <<"i", "n", "t", "e", "g", "e", "r">>,
      <<"f", "l", "o", "a", "t">>>>

AnnotationTypes == <<"AGTV_NUMERIC", "AGTV_INTEGER", "AGTV_FLOAT">>

\* the same letters, whatever their case
SameLetters(a, b) ==
    /\ Len(a) = Len(b)
    /\ \A i \in 1..Len(a) :
          \/ a[i] = b[i]
          \/ \E k \in 1..Len(UpperCase) : {a[i], b[i]} = {UpperCase[k], LowerCase[k]}

\* the stacks the scalar hook is called on: none, an open array of one
\* element, an open object whose key is pushed
HookStacks ==
    {EmptyState,
     push_agtype_value(push_agtype_value(EmptyState, "WAGT_BEGIN_ARRAY", NullPtr),
                       "WAGT_ELEM", AgtInteger(1)),
     push_agtype_value(push_agtype_value(EmptyState, "WAGT_BEGIN_OBJECT", NullPtr),
                       "WAGT_KEY", AgtString(<<"a">>))}

TokenTypes ==
    {"AGTYPE_TOKEN_STRING", "AGTYPE_TOKEN_INTEGER", "AGTYPE_TOKEN_FLOAT", "AGTYPE_TOKEN_NUMERIC",
     "AGTYPE_TOKEN_TRUE", "AGTYPE_TOKEN_FALSE", "AGTYPE_TOKEN_NULL"}

\* what a literal with the annotation read gives: named by names[k] it is of
\* the type types[k] when it is read; named otherwise it is refused with the
\* stack as it was
AnnotationDecides(named(_)) ==
    LET known == {k \in 1..3 : named(AnnotationNames[k])}
    IN  IF known # {}
        THEN /\ last.status \in {"ok", "error"}
             /\ last.status = "ok" =>
                    /\ IsScalarDatum(cur)
                    /\ \A k \in known : cur.children[1].type = AnnotationTypes[k]
             /\ last.status = "error" => last.err # "invalid annotation value for scalar"
             /\ \A st \in HookStacks, tokentype \in TokenTypes :
                   agtype_in_scalar(st, <<"2">>, tokentype, AgtString(AnnotationRead)).err
                       # "invalid annotation value for scalar"
        ELSE /\ last.status = "error"
             /\ last.err = "invalid annotation value for scalar"
             /\ cur = src
             /\ tree = Unset
             /\ \A st \in HookStacks, tokentype \in TokenTypes :
                   agtype_in_scalar(st, <<"2">>, tokentype, AgtString(AnnotationRead))
                       = [st EXCEPT !.err = "invalid annotation value for scalar"]

\* C12 (as the code has it): an annotation that is numeric, integer or float
\* in any mix of upper and lower case makes the literal ArbitraryPrecision,
\* Integer or Float whatever its lexical type; any other annotation is a
\* fatal error raised before a value is pushed, and the stack is as it was.
AnnotationOverride ==
    AnnotatedLiteralRead => AnnotationDecides(LAMBDA name : SameLetters(AnnotationRead, name))

\* C12 (as stated): the same, with any spelling but numeric, integer and
\* float refused.
AnnotationExactSpelling ==
    AnnotatedLiteralRead => AnnotationDecides(LAMBDA name : AnnotationRead = name)

\* the integer literal 2 has been read as an ArbitraryPrecision number under
\* the annotation NUMERIC
NumericInCapitals ==
    /\ AnnotatedLiteralRead
    /\ last.args[1].val.string = <<"2", ":", ":", "N", "U", "M", "E", "R", "I", "C">>
    /\ last.status = "ok"
    /\ cur = agtype_value_to_agtype(AgtNumeric(20, 0))

(***************************************************************************)
(* String lengths (spec.md, "String length is validated at construction"). *)
(* last.checked holds the lengths the call passed to check_string_length.  *)
(***************************************************************************)
StringTooLong == "string too long to represent as agtype string"

\* the String scalars of a value built on the stack, keys and values alike
RECURSIVE StringsOf(_)
StringsOf(v) ==
    CASE v.type = "AGTV_STRING" -> {v.string}
      [] v.type = "AGTV_ARRAY" -> UNION {StringsOf(v.elems[i]) : i \in 1..Len(v.elems)}
      [] v.type \in {"AGTV_OBJECT", "AGTV_VERTEX", "AGTV_EDGE"} ->
            UNION {StringsOf(v.pairs[i].key) \cup StringsOf(v.pairs[i].value) :
                       i \in 1..Len(v.pairs)}
      [] OTHER -> {}

\* the strings datum_to_agtype and composite_to_agtype make of a datum
\* without a call of check_string_length: the text of a bool, an integer, a
\* float or a numeric that is a key, a date or a timestamp, a numeric that is
\* not finite, the names of the attributes of a composite
RECURSIVE HostBounded(_, _)
HostBounded(val, key_scalar) ==
    LET tcategory == agtype_categorize_type(val.typoid)
    IN  CASE tcategory = "AGT_TYPE_BOOL" ->
                IF ~key_scalar THEN {}
                ELSE {IF val.boolean THEN <<"t", "r", "u", "e">> ELSE <<"f", "a", "l", "s", "e">>}
          [] tcategory \in {"AGT_TYPE_INTEGER", "AGT_TYPE_FLOAT"} ->
                IF key_scalar THEN {OidOutputFunctionCall(val)} ELSE {}
          [] tcategory = "AGT_TYPE_NUMERIC" ->
                IF key_scalar \/ val.numeric.nan THEN {OidOutputFunctionCall(val)} ELSE {}
          [] tcategory \in {"AGT_TYPE_DATE", "AGT_TYPE_TIMESTAMP", "AGT_TYPE_TIMESTAMPTZ"} ->
                {val.encoded}
          [] tcategory = "AGT_TYPE_ARRAY" ->
                UNION {HostBounded(val.elements[i], FALSE) : i \in 1..Len(val.elements)}
          [] tcategory = "AGT_TYPE_COMPOSITE" ->
                UNION {{val.atts[i].attname} \cup
                           (IF val.atts[i].isnull THEN {}
                            ELSE HostBounded(val.atts[i].val, FALSE)) :
                       i \in {j \in 1..Len(val.atts) : ~val.atts[j].attisdropped}}
          [] OTHER -> {}

\* the same of the arguments of a call; only agtype_build_map converts keys
HostBoundedArgs(fn, args) ==
    UNION {HostBounded(args[i].val, fn = "agtype_build_map" /\ i % 2 = 1) :
               i \in {j \in 1..Len(args) : ~args[j].isnull}}

\* a call that built its result from text and host datums only: no String
\* scalar was replayed from an agtype that had been built before
FreshConstruction ==
    /\ last.fn \in {"agtype_in", "agtype_build_list", "agtype_build_map",
                    "_agtype_build_vertex", "_agtype_build_edge"}
    /\ \A i \in 1..Len(last.args) : ~IsAgtypeArg(last.args[i])

Built == FreshConstruction /\ last.status = "ok" /\ tree # Unset

\* C13 as stated: every String scalar handed to the stack, on every
\* construction path, had its length checked before the push.
EveryStringChecked ==
    Built => \A str \in StringsOf(tree) : Len(str) \in last.checked

\* C13, amended: a String scalar handed to the stack had its length checked
\* unless it is a text the host bounds (a key converted from a bool or a
\* number, a date or timestamp, a non-finite numeric, an attribute name); a
\* checked length above the maximum fails the call with StringTooLong, before
\* any datum is encoded; and no String scalar above the maximum is encoded.
StringLengthValidated ==
    /\ Built =>
          \A str \in StringsOf(tree) :
              /\ Len(str) <= AGTENTRY_OFFLENMASK
              /\ \/ Len(str) \in last.checked
                 \/ str \in HostBoundedArgs(last.fn, last.args)
    /\ (\E len \in last.checked : len > AGTENTRY_OFFLENMASK) =>
          /\ last.status = "error"
          /\ last.err = StringTooLong
          /\ cur = src
          /\ tree = Unset

\* a text whose one string is too long was refused
LongStringRefused ==
    /\ last.fn = "agtype_in"
    /\ last.args[1].val.string = <<"\"">> \o LongString \o <<"\"">>
    /\ last.status = "error"
    /\ last.err = StringTooLong
    /\ Len(LongString) \in last.checked

(***************************************************************************)
(* The token after a key (spec.md, the token sequence of a container).     *)
(***************************************************************************)
\* the tokens of the container held
HeldTokens == ContainerTokens(cur)

\* the positions of the Key tokens
KeyPositions(toks) == {i \in 1..Len(toks) : toks[i].tok = "WAGT_KEY"}

\* C14: in the token sequence of a container each Key token is immediately
\* followed by a Value token or by a BeginObject or BeginArray token, never
\* by a Key, an Elem, an End token or Done.
KeyThenValue ==
    cur # SqlNull =>
        \A i \in KeyPositions(HeldTokens) :
            /\ i < Len(HeldTokens)
            /\ HeldTokens[i + 1].tok \in {"WAGT_VALUE", "WAGT_BEGIN_OBJECT", "WAGT_BEGIN_ARRAY"}

\* the renderer wrote an object that holds a container under a key
NestedUnderKeyWritten ==
    /\ cur # SqlNull
    /\ last.fn = "agtype_out"
    /\ \E i \in KeyPositions(HeldTokens) :
          HeldTokens[i + 1].tok \in {"WAGT_BEGIN_OBJECT", "WAGT_BEGIN_ARRAY"}

(***************************************************************************)
(* Keys of the wrong kind (spec.md, TypeMismatch).                         *)
(***************************************************************************)
\* the access operator was given one key on a list, an object, a Vertex or
\* an Edge
AccessedOnce ==
    /\ last.fn = "agtype_access_operator"
    /\ Len(last.args) = 1
    /\ ~IsScalarDatum(src) \/ IsTagged(src)

\* the container the key is applied to is a list
ListAccessed == ~IsScalarDatum(src) /\ AGT_ROOT_IS_ARRAY(src)

RefusedWith(msg) == last.status = "error" /\ last.err = msg /\ cur = src

NullReturned == last.status = "null" /\ last.err = "" /\ cur = SqlNull

\* C15: a list indexed with a non-null scalar that is no Integer is an error,
\* and so is an object looked up with an Integer, Float, ArbitraryPrecision
\* or Bool key; a Null key on a list or on an object yields null and no
\* error; a key that is no scalar is an error.  The call that fails returns
\* nothing and the datum held stays.
WrongKindKey ==
    AccessedOnce =>
        LET key == last.args[1]
            kind == ScalarOf(key).type
        IN  IF key.isnull THEN NullReturned
            ELSE IF ~AGT_ROOT_IS_SCALAR(key.val.agt)
            THEN RefusedWith("key must resolve to a scalar value")
            ELSE IF kind = "AGTV_NULL" THEN NullReturned
            ELSE IF ListAccessed
            THEN IF kind = "AGTV_INTEGER" THEN last.status # "error"
                 ELSE RefusedWith("array index must resolve to an integer value")
            ELSE IF kind = "AGTV_STRING" THEN last.status # "error"
                 ELSE /\ kind \in {"AGTV_INTEGER", "AGTV_FLOAT", "AGTV_NUMERIC", "AGTV_BOOL"}
                      /\ RefusedWith(kind \o " is not a valid key type")

\* an object was looked up with a Float key and the call failed
FloatKeyRefused ==
    /\ AccessedOnce
    /\ AGT_ROOT_IS_OBJECT(src)
    /\ ~last.args[1].isnull
    /\ AGT_ROOT_IS_SCALAR(last.args[1].val.agt)
    /\ ScalarOf(last.args[1]).type = "AGTV_FLOAT"
    /\ RefusedWith("AGTV_FLOAT is not a valid key type")

(***************************************************************************)
(* Several keys in one call of the access operator.                        *)
(***************************************************************************)
\* the access operator was given two keys on a list, an object, a Vertex or
\* an Edge
AccessedTwice ==
    /\ last.fn = "agtype_access_operator"
    /\ Len(last.args) = 2
    /\ ~IsScalarDatum(src) \/ IsTagged(src)

\* the call with the first key alone
FirstLookup == agtype_access_operator(<<Arg(AgtypeDatum(src)), last.args[1]>>)

\* the call with the second key on what the first returned
SecondLookup(first) == agtype_access_operator(<<Arg(AgtypeDatum(first.agt)), last.args[2]>>)

SameOutcome(out) ==
    /\ last.status = out.status
    /\ last.err = out.err
    /\ cur = IF out.status = "error" THEN src ELSE out.agt

\* C16: the access operator applies its keys left to right, each to the
\* result of the one before: the call with two keys gives what the lookup of
\* the second key in the result of the first gives, and when the first step
\* finds nothing or its key is null the result is null, the second key is
\* not applied and no error is raised for it.
NestedLookup ==
    AccessedTwice =>
        IF FirstLookup.status = "ok" THEN SameOutcome(SecondLookup(FirstLookup))
        ELSE SameOutcome(FirstLookup)

(***************************************************************************)
(* The stack contract (spec.md section 4.1): Elem goes into an Array       *)
(* frame, Key and Value into an Object frame.                              *)
(***************************************************************************)
ContractViolation == "parse state stack contract violation"

UnexpectedParent == "unexpected parent of nested structure"

\* the stack whose one frame is the value the last call built: a list, an
\* object, or a frame of another kind (a Vertex, an Edge, nothing)
ReopenedFrame == InState(<<tree>>, tree, "")

\* what the scalar hook and the datum conversion do on a stack
FrameContract(st) ==
    LET top == Last(st.parse_state)
        v == AgtInteger(1)
        k == AgtString(<<"k">>)
        elem == PushScalar(st, v, "WAGT_VALUE")
        inserted == InsertAgtv(st, v, FALSE)
        key == InsertAgtv(st, k, TRUE)
        val == PushScalar(key, v, "WAGT_VALUE")
    IN  CASE top.type = "AGTV_ARRAY" ->
                /\ elem.err = ""
                /\ elem.parse_state = <<[top EXCEPT !.elems = Append(@, v)]>>
                /\ inserted = elem
                /\ key.err = ""
                /\ key.parse_state = <<[top EXCEPT !.elems = Append(@, k)]>>
          [] top.type = "AGTV_OBJECT" ->
                /\ key.err = ""
                /\ key.parse_state = <<[top EXCEPT !.pairs = Append(@, Pair(k, Unset))]>>
                /\ val.err = ""
                /\ val.parse_state = <<[top EXCEPT !.pairs = Append(@, Pair(k, v))]>>
                /\ InsertAgtv(key, v, FALSE) = val
          [] OTHER ->
                \A r \in {elem, inserted, key} :
                    r.err = UnexpectedParent /\ r.parse_state = st.parse_state

\* C17: the hooks and the datum conversion keep the contract of the stack:
\* no call ends in a contract violation, and on an open frame they push an
\* Elem when it is an Array, a Key or a Value when it is an Object, and fail
\* without a push when it is of any other kind.
StackContractKept ==
    /\ last.err # ContractViolation
    /\ FrameContract(ReopenedFrame)

\* agtype_build_map pushed two keys and two values into an Object frame
MapBuiltFromDatums ==
    /\ last.fn = "agtype_build_map"
    /\ last.status = "ok"
    /\ tree.type = "AGTV_OBJECT"
    /\ Len(tree.pairs) = 2

(***************************************************************************)
(* The depth of the conversion of nested arrays and composites.            *)
(***************************************************************************)
StackDepthExceeded == "stack depth limit exceeded"

\* the number of calls of datum_to_agtype that are open at once while a
\* datum is converted
RECURSIVE Nesting(_)
Nesting(val) ==
    LET Deepest(set) == IF set = {} THEN 0 ELSE CHOOSE m \in set : \A n \in set : n <= m
    IN  CASE val.typoid = "RECORDOID" ->
                1 + Deepest({IF val.atts[i].isnull THEN 1 ELSE Nesting(val.atts[i].val) :
                                 i \in {j \in 1..Len(val.atts) : ~val.atts[j].attisdropped}})
          [] val.typoid = "ANYARRAYOID" ->
                1 + Deepest({IF val.nulls[i] THEN 1 ELSE Nesting(val.elements[i]) :
                                 i \in 1..Len(val.elements)})
          [] OTHER -> 1

TooDeep(arg) == ~arg.isnull /\ Nesting(arg.val) > max_stack_depth

\* the conversion of a datum on an empty stack
Conversion(val) ==
    datum_to_agtype(val, FALSE, EmptyState, agtype_categorize_type(val.typoid), FALSE)

\* the conversion of a composite nested n deep stops where the limit is: the
\* error is raised on the entry that is one too deep, with one frame open
\* for each composite entered before it
StopsAtLimit(n) ==
    LET out == Conversion(NestedComposite(n))
    IN  IF n + 1 > max_stack_depth
        THEN /\ out.err = StackDepthExceeded
             /\ out.depth = max_stack_depth
             /\ Len(out.parse_state) = max_stack_depth
        ELSE /\ out.err = ""
             /\ out.depth = 0
             /\ out.parse_state = <<>>

\* C18: the conversion of nested host arrays and composites checks the depth
\* on every entry of datum_to_agtype: a datum nested deeper than the limit
\* ends the call with the stack depth error and nothing is converted below
\* the limit; a datum within the limit is converted.
DepthChecked ==
    /\ \A n \in 1..(max_stack_depth + 1) : StopsAtLimit(n)
    /\ last.fn \in {"agtype_build_list", "agtype_build_map"} =>
          /\ last.err = StackDepthExceeded =>
                /\ \E i \in 1..Len(last.args) : TooDeep(last.args[i])
                /\ last.status = "error"
                /\ cur = src
                /\ tree = Unset
          /\ (Len(last.args) = 1 /\ TooDeep(last.args[1])) =>
                RefusedWith(StackDepthExceeded)

\* agtype_build_list refused a composite that is nested too deep
DeepCompositeRefused ==
    /\ last.fn = "agtype_build_list"
    /\ last.args = <<Arg(DeepDatum)>>
    /\ RefusedWith(StackDepthExceeded)

(***************************************************************************)
(* Cursors on one container (spec.md section 5).                           *)
(***************************************************************************)
\* the tokens of a container read off its structure: Begin, the children
\* in order, End; a nested container is one token when it is skipped
RECURSIVE StructureTokens(_, _)
StructureTokens(c, skip_nested) ==
    LET child(e, tok) ==
            IF e.type = "AGT_CONTAINER" /\ ~skip_nested
            THEN StructureTokens(e.data, skip_nested)
            ELSE <<Token(tok, fill_agtype_value(e))>>
        RECURSIVE from(_)
        from(i) ==
            IF i > c.count THEN <<>>
            ELSE IF c.is_array THEN child(c.children[i], "WAGT_ELEM") \o from(i + 1)
            ELSE <<Token("WAGT_KEY", c.children[2 * i - 1])>>
                     \o child(c.children[2 * i], "WAGT_VALUE") \o from(i + 1)
    IN  <<Token(IF c.is_array THEN "WAGT_BEGIN_ARRAY" ELSE "WAGT_BEGIN_OBJECT", BeginValue(c))>>
            \o from(1)
            \o <<Token(IF c.is_array THEN "WAGT_END_ARRAY" ELSE "WAGT_END_OBJECT", AgtNull)>>

\* what a cursor yields when it runs alone, Done at the end
AloneTokens(cursor) ==
    StructureTokens(cur, cursor.user # "agtype_to_cstring_worker")
        \o <<Token("WAGT_DONE", AgtNull)>>

IsPrefix(s, t) == Len(s) <= Len(t) /\ s = SubSeq(t, 1, Len(s))

\* C19: a container is not modified after it is made: however the next
\* calls of the cursors on it are interleaved, each cursor has yielded the
\* tokens it yields when it runs alone, and the container is as it was.
CursorsIndependent ==
    /\ cur = src
    /\ \A k \in DOMAIN its : IsPrefix(its[k].tokens, AloneTokens(its[k]))

\* on an object that holds a list, one cursor of the renderer is done, the
\* other is inside the list and the cursor of IN has only opened the object
CursorsApart ==
    /\ Len(its) = 3
    /\ AGT_ROOT_IS_OBJECT(cur)
    /\ CursorDone(its[1])
    /\ its[2].level = 2
    /\ Len(its[3].tokens) = 1

(***************************************************************************)
(* The end of a traversal (spec.md section 4.3).                           *)
(***************************************************************************)
TokenNames(cursor) == [i \in 1..Len(cursor.tokens) |-> cursor.tokens[i].tok]

AllDone == \A k \in DOMAIN its : CursorDone(its[k])

\* the level is never below 0 and is 0 at Done; a scalar is the four
\* tokens BeginArray, Elem, EndArray, Done
ProperlyNested ==
    \A k \in DOMAIN its :
        /\ its[k].level >= 0
        /\ CursorDone(its[k]) =>
              /\ its[k].level = 0
              /\ its[k].it = <<>>
              /\ AGT_ROOT_IS_SCALAR(cur) =>
                    TokenNames(its[k])
                        = <<"WAGT_BEGIN_ARRAY", "WAGT_ELEM", "WAGT_END_ARRAY", "WAGT_DONE">>

StringWritten ==
    /\ last.fn \in {"agtype_out", "agtype_to_cstring_indent"}
    /\ IsScalarDatum(cur)
    /\ cur.children[1].type = "AGTV_STRING"

\* the bytes with an escape of two characters, and the letter of each
TwoCharEscapes ==
    <<<<"<08>", "b">>, <<"<0c>", "f">>, <<"<0a>", "n">>, <<"<0d>", "r">>, <<"<09>", "t">>,
      <<"\"", "\"">>, <<"\\", "\\">>>>

\* what stands for one byte between the quotes
WrittenFor(c) ==
    LET named == {i \in 1..Len(TwoCharEscapes) : TwoCharEscapes[i][1] = c}
    IN  IF named # {} THEN <<"\\", TwoCharEscapes[CHOOSE i \in named : TRUE][2]>>
        ELSE IF IsControlByte(c) THEN <<"\\", "u", "0", "0">> \o HexOf(c)
        ELSE <<c>>

RECURSIVE WrittenForAll(_)
WrittenForAll(str) ==
    IF str = <<>> THEN <<>> ELSE WrittenFor(Head(str)) \o WrittenForAll(Tail(str))

\* the number of backslashes that end at position i of a text
RECURSIVE BackslashesBefore(_, _)
BackslashesBefore(t, i) ==
    IF i < 1 \/ t[i] # "\\" THEN 0 ELSE 1 + BackslashesBefore(t, i - 1)

\* C21: a string is written between double quotes, with backspace, form
\* feed, newline, carriage return, tab, double quote and backslash as their
\* two-character escapes, any other byte below 0x20 as \u00XX and any other
\* byte as it is; so no control byte and no unescaped double quote stands
\* between the quotes.
EscapedBetweenQuotes ==
    StringWritten =>
        LET n == Len(text)
            inner == SubSeq(text, 2, n - 1)
        IN  /\ n >= 2
            /\ text[1] = "\"" /\ text[n] = "\""
            /\ inner = WrittenForAll(cur.children[1].string)
            /\ \A i \in 1..Len(inner) :
                  /\ ~IsControlByte(inner[i])
                  /\ inner[i] = "\"" => BackslashesBefore(inner, i - 1) % 2 = 1

\* the string of every kind of byte was written
EscapeSampleWritten ==
    /\ StringWritten
    /\ cur.children[1].string = EscapeSample

(***************************************************************************)
(* The indented text (spec.md section 6, indented mode).                   *)
(***************************************************************************)
\* the indented text of a container whose members are at the given level:
\* each member after a newline and four spaces for each level, a comma
\* with no space before the next member, the closing bracket one level
\* up; a container under a key follows its key on the same line.  The body
\* of a Vertex or an Edge is indented like any object, or compact.
RECURSIVE IndentedAs(_, _, _)
IndentedAs(c, level, tagged_indented) ==
    LET break(l) == <<"\n">> \o Spaces(4 * l)
        value(e) ==
            IF e.type = "AGT_CONTAINER" THEN IndentedAs(e.data, level + 1, tagged_indented)
            ELSE IF e.type \in {"AGTV_VERTEX", "AGTV_EDGE"} /\ tagged_indented
            THEN IndentedAs(e.data, level + 1, tagged_indented)
                     \o (IF e.type = "AGTV_VERTEX" THEN VertexSuffix ELSE EdgeSuffix)
            ELSE agtype_put_escaped_value(<<>>, fill_agtype_value(e)).out
        comma(i) == IF i > 1 THEN <<",">> ELSE <<>>
        RECURSIVE members(_)
        members(i) ==
            IF i > c.count THEN <<>>
            ELSE IF c.is_array
            THEN comma(i) \o break(level) \o value(c.children[i]) \o members(i + 1)
            ELSE comma(i) \o break(level)
                     \o agtype_put_escaped_value(<<>>, c.children[2 * i - 1]).out
                     \o <<":", " ">> \o value(c.children[2 * i]) \o members(i + 1)
    IN  IF c.is_array /\ c.is_scalar
        THEN IF c.children[1].type \in {"AGTV_VERTEX", "AGTV_EDGE"} /\ tagged_indented
             THEN IndentedAs(c.children[1].data, 1, tagged_indented)
                      \o (IF c.children[1].type = "AGTV_VERTEX" THEN VertexSuffix
                          ELSE EdgeSuffix)
             ELSE agtype_put_escaped_value(<<>>, fill_agtype_value(c.children[1])).out
        ELSE (IF c.is_array THEN <<"[">> ELSE <<"{">>)
                 \o members(1) \o break(level - 1)
                 \o (IF c.is_array THEN <<"]">> ELSE <<"}">>)

IndentedWritten == last.fn = "agtype_to_cstring_indent" /\ cur # SqlNull

\* C22: in the indented text every member of a container at level L (a
\* key, an element, a container that is an element, a closing bracket at
\* its own level) comes after a newline and 4 * L spaces.
IndentedMembers == IndentedWritten => text = IndentedAs(cur, 1, TRUE)



(***************************************************************************)
(* Lookups between traversals.                                             *)
(***************************************************************************)
\* what an object stores under a key, as the data the access operator returns
StoredUnder(o, key) ==
    {agtype_value_to_agtype(fill_agtype_value(o.children[2 * i])) :
        i \in {j \in 1..o.count : o.children[2 * j - 1] = ScalarOf(key)}}

KeyText(val) ==
    CASE val.typoid = "BOOLOID" ->
            IF val.boolean THEN <<"t", "r", "u", "e">> ELSE <<"f", "a", "l", "s", "e">>
      [] val.typoid = "DATEOID" -> val.encoded
      [] val.typoid = "TEXTOID" -> val.string
      [] OTHER -> OidOutputFunctionCall(val)

\* the value tree one argument becomes as a value
ValueTree(arg) == agtype_build_list(<<arg>>).res.elems[1]

\* the arguments the claim says are refused: an odd count, a NULL key, a key
\* that is an array, a composite, json or agtype
KeyRefused(args) ==
    \/ Len(args) % 2 # 0
    \/ \E i \in DOMAIN args :
          /\ i % 2 = 1
          /\ \/ args[i].isnull
             \/ args[i].val.typoid \in {"ANYARRAYOID", "RECORDOID", "JSONOID", "AGTYPEOID"}

\* C24: agtype_build_map with 2k arguments that returns builds an Object of
\* k pairs in argument order, the i-th made of arguments 2i-1 and 2i; every
\* key is a String, the text of the key argument, whatever its type (bool,
\* integer, float, numeric, date, text); with an odd count of arguments, a
\* NULL key, or a key that is an array, a composite, json or agtype, the call
\* ends in an error and no map is returned.
MapPairsInOrder ==
    last.fn = "agtype_build_map" =>
       /\ KeyRefused(last.args) => (last.status = "error" /\ cur = src /\ tree = Unset)
       /\ last.status = "ok" =>
             /\ tree.type = "AGTV_OBJECT"
             /\ 2 * Len(tree.pairs) = Len(last.args)
             /\ \A i \in DOMAIN tree.pairs :
                   /\ tree.pairs[i].key = AgtString(KeyText(last.args[2 * i - 1].val))
                   /\ tree.pairs[i].value = ValueTree(last.args[2 * i])
             /\ cur = agtype_value_to_agtype(tree)
             /\ AGT_ROOT_IS_OBJECT(cur)
             /\ AGT_ROOT_COUNT(cur) = Len(tree.pairs)

\* a map of two pairs was built, the first under a bool key
BoolKeyedMapBuilt ==
    /\ last.fn = "agtype_build_map"
    /\ last.status = "ok"
    /\ Len(last.args) = 4
    /\ last.args[1].val.typoid = "BOOLOID"
    /\ [i \in 1..2 |-> tree.pairs[i].key.string] = <<<<"f", "a", "l", "s", "e">>, <<"a">>>>
    /\ tree.pairs[1].value = AgtInteger(2)

(***************************************************************************)
(* One call of datum_to_agtype on an open frame.                           *)
(***************************************************************************)
\* a value with nothing left open in it
RECURSIVE Complete(_)
Complete(v) ==
    CASE v.type = "AGTV_ARRAY" -> \A i \in DOMAIN v.elems : Complete(v.elems[i])
      [] v.type = "AGTV_OBJECT" ->
            \A i \in DOMAIN v.pairs :
                v.pairs[i].key.type = "AGTV_STRING" /\ Complete(v.pairs[i].value)
      [] OTHER -> v.type \in ScalarTypes \cup {"AGTV_BINARY"}

JsonbDatum(agt) == [typoid |-> "JSONBOID", agt |-> agt]

TimestampDatum(typoid, encoded) == [typoid |-> typoid, encoded |-> encoded]

\* a datum of every category, with its category
CategorySamples ==
    {<<arg.val, agtype_categorize_type(arg.val.typoid)>> :
        arg \in (HostArgs \ {TextArg(EscapeSample)}) \cup {Int2Arg, TextArg(<<"a">>)}}
      \cup {<<TimestampDatum("TIMESTAMPOID", <<"2", "0", "0", "0">>), "AGT_TYPE_TIMESTAMP">>,
            <<TimestampDatum("TIMESTAMPTZOID", <<"2", "0", "0", "0">>), "AGT_TYPE_TIMESTAMPTZ">>,
            <<JsonDatum(<<"1">>), "AGT_TYPE_JSON">>,
            <<JsonDatum(<<"{", "\"", "a", "\"", ":", "[", "]", "}">>), "AGT_TYPE_JSONCAST">>,
            <<JsonbDatum(integer_to_agtype(1).agt), "AGT_TYPE_JSONB">>,
            <<JsonbDatum(agtype_from_cstring(<<"[", "1", ",", "[", "2", "]", "]">>).agt),
              "AGT_TYPE_JSONB">>,
            <<AgtypeDatum(integer_to_agtype(1).agt), "AGT_TYPE_AGTYPE">>,
            <<AgtypeDatum(agtype_from_cstring(<<"{", "\"", "a", "\"", ":", "{", "}", "}">>).agt),
              "AGT_TYPE_AGTYPE">>,
            <<AgtypeDatum(_agtype_build_vertex(GraphidArg(1), TextArg(<<"v">>), NullArg).agt),
              "AGT_TYPE_AGTYPE">>,
            <<ArrayDatum("INT8OID", <<>>, <<>>, <<>>), "AGT_TYPE_ARRAY">>,
            <<ArrayDatum("INT8OID", <<2, 1>>, <<Int8Datum(1), Int8Datum(2)>>, <<FALSE, TRUE>>),
              "AGT_TYPE_ARRAY">>}

\* the stacks with a frame open on top of another: the value the last call
\* built, reopened, when it is a list, and with a key pushed when it is an
\* object
OpenFrames ==
    LET under == AgtArray(FALSE, <<AgtInteger(0)>>)
        st == InState(<<under, tree>>, tree, "")
    IN  CASE tree.type = "AGTV_ARRAY" -> {st}
          [] tree.type = "AGTV_OBJECT" -> {push_agtype_value(st, "WAGT_KEY", AgtString(<<"k">>))}
          [] OTHER -> {}

\* a call that returns has put one complete child into the top frame
OneChildAppended(st, out) ==
    LET top == Last(st.parse_state)
        now == Last(out.parse_state)
    IN  /\ Len(out.parse_state) = Len(st.parse_state)
        /\ Front(out.parse_state) = Front(st.parse_state)
        /\ out.depth = st.depth
        /\ now.type = top.type
        /\ IF top.type = "AGTV_ARRAY"
           THEN /\ Len(now.elems) = Len(top.elems) + 1
                /\ Front(now.elems) = top.elems
                /\ Complete(Last(now.elems))
           ELSE /\ Len(now.pairs) = Len(top.pairs)
                /\ Front(now.pairs) = Front(top.pairs)
                /\ Last(now.pairs).key = Last(top.pairs).key
                /\ Complete(Last(now.pairs).value)

\* C25: one call of datum_to_agtype that returns, made while a frame is
\* open, for a datum of any category, NULL or not, appends exactly one child
\* to the frame on top (a scalar, or one whole container) and leaves the
\* stack as deep as it was, with the frames below as they were.
ExactlyOneChild ==
    \A st \in OpenFrames : \A s \in CategorySamples : \A is_null \in BOOLEAN :
        LET out == datum_to_agtype(s[1], is_null, st, s[2], FALSE)
        IN  out.err = "" => OneChildAppended(st, out)

\* a composite and a NULL have each been put under the pending key of an
\* object frame, the composite as one object
ChildPutUnderKey ==
    /\ tree.type = "AGTV_OBJECT"
    /\ \E st \in OpenFrames :
          LET whole == datum_to_agtype(NestedComposite(2), FALSE, st, "AGT_TYPE_COMPOSITE", FALSE)
              null == datum_to_agtype(NestedComposite(2), TRUE, st, "AGT_TYPE_COMPOSITE", FALSE)
          IN  /\ whole.err = ""
              /\ Last(Last(whole.parse_state).pairs).value.type = "AGTV_OBJECT"
              /\ null.err = ""
              /\ Last(Last(null.parse_state).pairs).value = AgtNull

(***************************************************************************)
(* A key applied to a scalar.                                              *)
(***************************************************************************)
KeyOnScalar == "container must be an array or object"

PlainScalar(agt) == IsScalarDatum(agt) /\ ~IsTagged(agt)

\* the first argument is a scalar that is no Vertex and no Edge
FirstIsScalar ==
    /\ last.fn = "agtype_access_operator"
    /\ Len(last.args) >= 1
    /\ PlainScalar(src)

\* the first key gave a scalar that is no Vertex and no Edge, and there is a
\* second key
SecondKeyOnScalar ==
    /\ last.fn = "agtype_access_operator"
    /\ Len(last.args) = 2
    /\ ~PlainScalar(src)
    /\ ~last.args[2].isnull
    /\ FirstLookup.status = "ok"
    /\ PlainScalar(FirstLookup.agt)

\* C26: a key applied to a scalar that is no Vertex and no Edge is refused
\* with 'container must be an array or object', whether the scalar is the
\* first argument or what an earlier key returned; the one-element wrapper
\* of a scalar is never indexed as a list.
ScalarNeverIndexed ==
    (FirstIsScalar \/ SecondKeyOnScalar) => RefusedWith(KeyOnScalar)

(***************************************************************************)
(* The outcomes of IN.                                                     *)
(***************************************************************************)
NotAList == "object of IN must be a list"

IsNullScalar(agt) == IsScalarDatum(agt) /\ agt.children[1] = AgtNull

\* the list searched is SQL NULL or the agtype Null
ListIsNull == src = SqlNull \/ IsNullScalar(src)

\* the item looked for is SQL NULL or the agtype Null
ItemIsNull == last.args[1].isnull \/ IsNullScalar(last.args[1].val.agt)

\* the list searched is an object or a scalar that is not Null
ListIsNoList ==
    /\ src # SqlNull
    /\ AGT_ROOT_IS_OBJECT(src) \/ (IsScalarDatum(src) /\ ~IsNullScalar(src))

\* C27: agtype_in_operator(list, item) returns NULL when the list is SQL NULL
\* or the agtype Null, or when the item is; it fails with 'object of IN must
\* be a list' when the list is an object or a scalar that is not Null (when
\* both hold, a NULL item on what is no list, either outcome is taken as
\* stated); otherwise it returns a boolean, true exactly when some top-level
\* element of the list equals the item, hence false for the empty list.
InOutcomes ==
    last.fn = "agtype_in_operator" =>
        CASE ListIsNull -> NullReturned
          [] ListIsNoList /\ ItemIsNull -> NullReturned \/ RefusedWith(NotAList)
          [] ListIsNoList -> RefusedWith(NotAList)
          [] ItemIsNull -> NullReturned
          [] OTHER ->
                /\ last.status = "ok"
                /\ cur \in {TrueDatum, FalseDatum}
                /\ cur = TrueDatum <=> SomeElementEqual(src, last.args[1].val.agt)
                /\ AGT_ROOT_COUNT(src) = 0 => cur = FalseDatum

(***************************************************************************)
(* The outcomes of a slice.                                                *)
(***************************************************************************)
\* a bound that is missing (SQL NULL) or the agtype Null
BoundMissing(b) == b.isnull \/ IsNullScalar(b.val.agt)

\* a bound that is given and is no Integer
BoundNoInteger(b) == ~BoundMissing(b) /\ ~IsIntegerArg(b)

\* the bound in use: the default when it is missing
BoundOr(b, default) == IF BoundMissing(b) THEN default ELSE ScalarOf(b).int_value

\* C28: agtype_access_slice returns NULL for a NULL list argument; it fails
\* when both bounds are missing or Null, when the value sliced is no list
\* (an object, a raw scalar), or when a bound that is given is no Integer;
\* otherwise a missing or Null lower bound stands for 0 and a missing or
\* Null upper bound for the length of the list.
SliceOutcomes ==
    last.fn = "agtype_access_slice" =>
        LET lo == last.args[1]
            hi == last.args[2]
            n == AGT_ROOT_COUNT(src)
            from == Clamped(BoundOr(lo, 0), n)
            to == Clamped(BoundOr(hi, n), n)
        IN  CASE src = SqlNull -> NullReturned
              [] \/ BoundMissing(lo) /\ BoundMissing(hi)
                 \/ ~IsList(src)
                 \/ BoundNoInteger(lo)
                 \/ BoundNoInteger(hi) -> last.status = "error" /\ cur = src
              [] OTHER ->
                    /\ last.status = "ok"
                    /\ IsList(cur)
                    /\ AGT_ROOT_COUNT(cur) = Max(0, to - from)
                    /\ \A k \in 1..AGT_ROOT_COUNT(cur) : cur.children[k] = src.children[from + k]

(***************************************************************************)
(* The typecast to numeric.                                                *)
(***************************************************************************)
Typecast == last.fn = "agtype_typecast_numeric"

\* the value of a number that is not NaN, in tenths
Tenths(v) ==
    CASE v.type = "AGTV_INTEGER" -> 10 * v.int_value
      [] v.type = "AGTV_FLOAT" -> v.float_value.tenths * Pow10(v.float_value.exp)
      [] v.type = "AGTV_NUMERIC" -> v.numeric.tenths

IsNaN(v) ==
    \/ v.type = "AGTV_FLOAT" /\ v.float_value.nan
    \/ v.type = "AGTV_NUMERIC" /\ v.numeric.nan

\* the datum is the ArbitraryPrecision scalar of the value of the number v
NumericOfValue(agt, v) ==
    /\ IsScalarDatum(agt)
    /\ agt.children[1].type = "AGTV_NUMERIC"
    /\ IsNaN(agt.children[1]) = IsNaN(v)
    /\ ~IsNaN(v) => Tenths(agt.children[1]) = Tenths(v)
    /\ CompareValues(agt.children[1], v) = 0

RECURSIVE EntryPairs(_, _)
EntryPairs(given, left) ==
    UNION {{<<given.rtable[i], left.rtable[i]>>}
               \cup (IF given.rtable[i].rtekind = "RTE_SUBQUERY"
                     THEN EntryPairs(given.rtable[i].subquery, left.rtable[i].subquery)
                     ELSE {}) : i \in DOMAIN given.rtable}

QualifiedName(funcexpr) == <<funcexpr.funcid.pronamespace, funcexpr.funcid.proname>>

\* a function entry that holds a single call of ag_catalog.cypher
SingleCypher(rte) ==
    /\ rte.rtekind = "RTE_FUNCTION"
    /\ Len(rte.functions) = 1
    /\ QualifiedName(rte.functions[1].funcexpr) = <<"ag_catalog", "cypher">>

\* the row the query of a cypher() call returns, and the column definition
\* list written after the call
ResultRow(str) ==
    LET tl == parse_and_analyze_cypher(str).targetList
    IN  [i \in DOMAIN tl |->
            [type |-> exprType(tl[i]), typmod |-> exprTypmod(tl[i]),
             collation |-> exprCollation(tl[i])]]

ColumnDefinitionList(rtfunc) ==
    [i \in 1 .. rtfunc.funccolcount |->
        [type |-> rtfunc.funccoltypes[i], typmod |-> rtfunc.funccoltypmods[i],
         collation |-> rtfunc.funccolcollations[i]]]

\* a single cypher() call that nothing forbids to convert
Convertible(rte) ==
    /\ SingleCypher(rte)
    /\ ~rte.funcordinality
    /\ LET arg == rte.functions[1].funcexpr.args[1]
       IN  /\ arg.tag = "Const"
           /\ ~arg.constisnull
           /\ ResultRow(arg.constvalue) = ColumnDefinitionList(rte.functions[1])

RECURSIVE CallsCypher(_)
CallsCypher(expr) ==
    /\ expr.tag = "FuncExpr"
    /\ \/ QualifiedName(expr) = <<"ag_catalog", "cypher">>
       \/ \E i \in DOMAIN expr.args : CallsCypher(expr.args[i])

\* the statement holds one of the uses of cypher() that are refused
RECURSIVE UseRefused(_)
UseRefused(query) ==
    \/ \E i \in DOMAIN query.targetList : CallsCypher(query.targetList[i])
    \/ \E i \in DOMAIN query.rtable :
          LET rte == query.rtable[i]
          IN  CASE rte.rtekind = "RTE_FUNCTION" ->
                       IF SingleCypher(rte)
                       THEN ~Convertible(rte)
                       ELSE \E k \in DOMAIN rte.functions :
                                CallsCypher(rte.functions[k].funcexpr)
                [] rte.rtekind = "RTE_SUBQUERY" -> UseRefused(rte.subquery)
                [] rte.rtekind = "RTE_VALUES" ->
                       \E k \in DOMAIN rte.values_lists : CallsCypher(rte.values_lists[k])
                [] OTHER -> FALSE

========================================================================
